---- MODULE Spec2Model ----
(***************************************************************************)
(* TaxHelp AI bot: the adaptive questionnaire engine (qa.py) and the       *)
(* conversation handlers that drive it (bot.py).                           *)
(*                                                                         *)
(* Python str values are TLA+ strings, handled character by character     *)
(* with Len, SubSeq and \o.  Python dicts are functions whose DOMAIN is    *)
(* the set of keys present.  Values stored in a dict are tagged records    *)
(* (Str, PyInt, PyFloat) so that values of different Python types can be   *)
(* compared.                                                               *)
(***************************************************************************)
EXTENDS Integers, Sequences, FiniteSets, TLC

VARIABLES
    state,       \* conversation state kept by the ConversationHandler
    user_data,   \* context.user_data, a dict
    keyboards,   \* callback_data of the inline buttons rendered in the chat
    reply,       \* the last message a handler sent
    result,      \* last return of get_next_question (questionnaire driver)
    asked,       \* keys returned so far by get_next_question (driver)
    kb0,         \* the KnowledgeBase the driver started from
    raw,         \* raw answer under validation (validation driver)
    verdict,     \* last return of validate_answer (validation driver)
    stored       \* last outcome of process_answer (validation driver)

vars == <<state, user_data, keyboards, reply, result, asked, kb0, raw, verdict, stored>>

-----------------------------------------------------------------------------
(* Bounds of the model.                                                    *)

MaxNumLen == 4      \* longest raw answer over the numeric alphabet
MaxZipLen == 6      \* longest raw answer over the ZIP alphabet
MaxDocs == 2        \* most documents uploaded in one session
MaxDriverDocs == 1  \* most document types handed to the questionnaire driver
MaxMarkers == 3     \* most marker phrases on a sampled document
MaxFields == 3      \* most identifiers, dates and amounts on a sampled document
MaxAmounts == 7     \* most amounts on a sampled document that holds only amounts
MaxWageSteps == 6   \* wages sampled at this many multiples of 12,345.67
MaxIncomeSteps == 40 \* taxable incomes sampled at this many multiples of 2,500.25

-----------------------------------------------------------------------------
(* Python dict and str primitives.                                         *)

EmptyDict == <<>>

Has(d, k) == k \in DOMAIN d

Get(d, k, default) == IF k \in DOMAIN d THEN d[k] ELSE default

Put(d, k, v) == [x \in DOMAIN d \cup {k} |-> IF x = k THEN v ELSE d[x]]

Str(s) == [t |-> "str", s |-> s]

PyInt(n) == [t |-> "int", n |-> n]

PyFloat(kind, neg, whole, frac) ==
    [t |-> "float", kind |-> kind, neg |-> neg, whole |-> whole, frac |-> frac]

CharAt(s, i) == SubSeq(s, i, i)

UpperCase == "ABCDEFGHIJKLMNOPQRSTUVWXYZ"

LowerCase == "abcdefghijklmnopqrstuvwxyz"

UpperLetters == {CharAt(UpperCase, i) : i \in 1..Len(UpperCase)}

LowerOf ==
    [c \in UpperLetters |->
        CharAt(LowerCase, CHOOSE i \in 1..Len(UpperCase) : CharAt(UpperCase, i) = c)]

LowerChar(c) == IF c \in UpperLetters THEN LowerOf[c] ELSE c

RECURSIVE Lower(_)
Lower(s) ==
    IF s = "" THEN ""
    ELSE IF Len(s) = 1 THEN LowerChar(Head(s))
    ELSE Lower(SubSeq(s, 1, Len(s) \div 2)) \o Lower(SubSeq(s, Len(s) \div 2 + 1, Len(s)))

\* s.replace(old, new) for a one-character old
RECURSIVE Replace(_, _, _)
Replace(s, old, new) ==
    IF s = "" THEN ""
    ELSE (IF Head(s) = old THEN new ELSE Head(s)) \o Replace(Tail(s), old, new)

StartsWith(s, p) == Len(s) >= Len(p) /\ SubSeq(s, 1, Len(p)) = p

\* sub in s
Contains(s, sub) ==
    \E i \in 1..(Len(s) - Len(sub) + 1) : SubSeq(s, i, i + Len(sub) - 1) = sub

\* index of the first occurrence of the one-character c in s, 0 when absent
IndexOf(s, c) ==
    IF \E i \in 1..Len(s) : CharAt(s, i) = c
    THEN CHOOSE i \in 1..Len(s) : CharAt(s, i) = c /\ \A j \in 1..(i-1) : CharAt(s, j) # c
    ELSE 0

RECURSIVE LStrip(_)
LStrip(s) == IF s # "" /\ Head(s) = " " THEN LStrip(Tail(s)) ELSE s

RECURSIVE RStrip(_)
RStrip(s) ==
    IF s # "" /\ CharAt(s, Len(s)) = " " THEN RStrip(SubSeq(s, 1, Len(s) - 1)) ELSE s

Strip(s) == RStrip(LStrip(s))

Digits == "0123456789"

DigitValue == [c \in {CharAt(Digits, i) : i \in 1..10} |->
                  (CHOOSE i \in 1..10 : CharAt(Digits, i) = c) - 1]

IsDigit(c) == c \in DOMAIN DigitValue

DigitVal(c) == DigitValue[c]

AllDigits(s) == \A i \in 1..Len(s) : IsDigit(CharAt(s, i))

RECURSIVE NatOf(_)
NatOf(s) ==
    IF s = "" THEN 0 ELSE 10 * NatOf(SubSeq(s, 1, Len(s) - 1)) + DigitVal(CharAt(s, Len(s)))

RECURSIVE StripZeros(_)
StripZeros(s) ==
    IF s # "" /\ CharAt(s, Len(s)) = "0" THEN StripZeros(SubSeq(s, 1, Len(s) - 1)) ELSE s

-----------------------------------------------------------------------------
(* float(answer).  The strings drawn below hold no exponent marker and no  *)
(* digit-group underscore, so the grammar is: optional surrounding blanks, *)
(* optional sign, then inf / infinity / nan in any case, or digits with at *)
(* most one point and at least one digit.  Anything else is ValueError.    *)

ValueError == [raise |-> "ValueError"]

OverflowError == [raise |-> "OverflowError"]

KeyError == [raise |-> "KeyError"]

Raised(r) == "raise" \in DOMAIN r

ParseFloat(answer) ==
    LET t    == Strip(answer)
        sgn  == IF t # "" /\ Head(t) \in {"+", "-"} THEN Head(t) ELSE ""
        neg  == sgn = "-"
        body == IF sgn = "" THEN t ELSE Tail(t)
        low  == Lower(body)
        dot  == IndexOf(body, ".")
        ip   == IF dot = 0 THEN body ELSE SubSeq(body, 1, dot - 1)
        fp   == IF dot = 0 THEN "" ELSE SubSeq(body, dot + 1, Len(body))
    IN  IF low \in {"inf", "infinity"} THEN PyFloat("inf", neg, 0, "")
        ELSE IF low = "nan" THEN PyFloat("nan", neg, 0, "")
        ELSE IF AllDigits(ip) /\ AllDigits(fp) /\ Len(ip) + Len(fp) > 0
             THEN PyFloat("fin", neg, NatOf(ip), StripZeros(fp))
        ELSE ValueError

\* val < 0
FloatNegative(val) ==
    CASE val.kind = "nan" -> FALSE
      [] val.kind = "inf" -> val.neg
      [] OTHER -> val.neg /\ (val.whole > 0 \/ val.frac # "")

\* 0 <= val <= 100
FloatInPercentRange(val) ==
    /\ val.kind = "fin"
    /\ ~FloatNegative(val)
    /\ (val.whole < 100 \/ (val.whole = 100 /\ val.frac = ""))

\* int(val): truncation toward zero; nan and inf raise
IntOfFloat(val) ==
    CASE val.kind = "nan" -> ValueError
      [] val.kind = "inf" -> OverflowError
      [] OTHER -> PyInt(IF val.neg THEN 0 - val.whole ELSE val.whole)

-----------------------------------------------------------------------------
(* qa.py: AdaptiveQA.                                                      *)

questions ==
    [en |-> [filing_status  |-> "What's your filing status?",
             dependents     |-> "How many dependents do you have?",
             zip_code       |-> "What's your ZIP code?",
             gig_method     |-> "For gig work, do you use standard mileage rate or actual expenses?",
             miles          |-> "How many business miles did you drive this year?",
             phone_percent  |-> "What percentage of your phone bill is for business use?",
             home_office    |-> "Do you have a home office? If yes, what's the square footage?",
             state_specific |-> "Do you have any state-specific tax situations?"],
     es |-> [filing_status  |-> "¿Cuál es tu estado civil para impuestos?",
             dependents     |-> "¿Cuántos dependientes tienes?",
             zip_code       |-> "¿Cuál es tu código postal?",
             gig_method     |-> "Para trabajo independiente, ¿usas tarifa de millaje estándar o gastos reales?",
             miles          |-> "¿Cuántas millas de negocio condujiste este año?",
             phone_percent  |-> "¿Qué porcentaje de tu factura de teléfono es para uso comercial?",
             home_office    |-> "¿Tienes una oficina en casa? Si es sí, ¿cuál es el área en pies cuadrados?",
             state_specific |-> "¿Tienes alguna situación fiscal específica del estado?"]]

options ==
    [en |-> [filing_status |-> <<"Single", "Married Filing Jointly", "Married Filing Separately",
                                 "Head of Household", "Qualifying Widow(er)">>,
             gig_method    |-> <<"Standard Mileage Rate", "Actual Expenses">>],
     es |-> [filing_status |-> <<"Soltero", "Casado Presentando Conjuntamente",
                                 "Casado Presentando Separadamente", "Cabeza de Hogar",
                                 "Viudo Calificado">>,
             gig_method    |-> <<"Tarifa de Millaje Estándar", "Gastos Reales">>]]

None == [none |-> TRUE]

IsQuestion(q) == "key" \in DOMAIN q

\* the dict get_next_question returns for `key`; a missing table entry is a KeyError
Question(key, question_key, type, language) ==
    IF language \notin DOMAIN questions \/ question_key \notin DOMAIN questions[language]
    THEN KeyError
    ELSE IF type = "choice"
    THEN IF language \notin DOMAIN options \/ key \notin DOMAIN options[language]
         THEN KeyError
         ELSE [key |-> key, question |-> questions[language][question_key],
               type |-> type, options |-> options[language][key]]
    ELSE [key |-> key, question |-> questions[language][question_key], type |-> type]

\* any('1099' in doc_type.lower() for doc_type in doc_types)
HasGigDocument(doc_types) ==
    \E i \in 1..Len(doc_types) : Contains(Lower(doc_types[i]), "1099")

\* answers.get('zip_code', '').startswith(('9', '8'))
ZipIsCalifornia(answers) ==
    LET zip == Get(answers, "zip_code", Str("")).s
    IN  StartsWith(zip, "9") \/ StartsWith(zip, "8")

\* StateQuestion with the state-specific question never asked
StateQuestion_Never(answers, language) == None

StateQuestion(answers, language) ==
    IF ZipIsCalifornia(answers) /\ ~Has(answers, "state_specific")
    THEN Question("state_specific", "state_specific", "yes_no", language)
    ELSE None

\* GigQuestion with the test for miles being absent dropped
GigQuestion_ReasksMiles(answers, language) ==
    IF ~Has(answers, "gig_method")
    THEN Question("gig_method", "gig_method", "choice", language)
    ELSE IF Get(answers, "gig_method", None) = Str("Standard Mileage Rate")
    THEN Question("miles", "miles", "number", language)
    ELSE StateQuestion(answers, language)

GigQuestion(answers, language) ==
    IF ~Has(answers, "gig_method")
    THEN Question("gig_method", "gig_method", "choice", language)
    ELSE IF Get(answers, "gig_method", None) = Str("Standard Mileage Rate")
    THEN IF ~Has(answers, "miles")
         THEN Question("miles", "miles", "number", language)
         ELSE StateQuestion(answers, language)
    ELSE IF Get(answers, "gig_method", None) = Str("Actual Expenses")
    THEN IF ~Has(answers, "phone_percent")
         THEN Question("phone_percent", "phone_percent", "number", language)
         ELSE IF ~Has(answers, "home_office_sqft")
         THEN Question("home_office_sqft", "home_office", "text", language)
         ELSE StateQuestion(answers, language)
    ELSE StateQuestion(answers, language)

\* get_next_question with zip_code asked before dependents
get_next_question_ZipFirst(answers, doc_types, language) ==
    IF ~Has(answers, "filing_status")
    THEN Question("filing_status", "filing_status", "choice", language)
    ELSE IF ~Has(answers, "zip_code")
    THEN Question("zip_code", "zip_code", "text", language)
    ELSE IF ~Has(answers, "dependents")
    THEN Question("dependents", "dependents", "number", language)
    ELSE IF HasGigDocument(doc_types)
    THEN GigQuestion(answers, language)
    ELSE StateQuestion(answers, language)

get_next_question(answers, doc_types, language) ==
    IF ~Has(answers, "filing_status")
    THEN Question("filing_status", "filing_status", "choice", language)
    ELSE IF ~Has(answers, "dependents")
    THEN Question("dependents", "dependents", "number", language)
    ELSE IF ~Has(answers, "zip_code")
    THEN Question("zip_code", "zip_code", "text", language)
    ELSE IF HasGigDocument(doc_types)
    THEN GigQuestion(answers, language)
    ELSE StateQuestion(answers, language)

NumericKeys == {"dependents", "miles", "phone_percent", "home_office_sqft"}

valid_options ==
    {"single", "married_filing_jointly", "married_filing_separately",
     "head_of_household", "qualifying_widow"}

ZipNormalized(answer) == Replace(answer, "-", "")

FilingStatusNormalized(answer) == Replace(Lower(answer), " ", "_")

\* NumericVerdict with the negative test applied to phone_percent only
NumericVerdict_NoNegativeTest(question_key, answer) ==
    LET val == ParseFloat(answer)
    IN  IF Raised(val)
        THEN [ok |-> FALSE, msg |-> "Please enter a valid number"]
        ELSE IF question_key = "phone_percent" /\ ~FloatInPercentRange(val)
        THEN [ok |-> FALSE, msg |-> "Percentage must be between 0 and 100"]
        ELSE [ok |-> TRUE, msg |-> ""]

NumericVerdict(question_key, answer) ==
    LET val == ParseFloat(answer)
    IN  IF Raised(val)
        THEN [ok |-> FALSE, msg |-> "Please enter a valid number"]
        ELSE IF question_key = "phone_percent" /\ ~FloatInPercentRange(val)
        THEN [ok |-> FALSE, msg |-> "Percentage must be between 0 and 100"]
        ELSE IF FloatNegative(val)
        THEN [ok |-> FALSE, msg |-> "Value cannot be negative"]
        ELSE [ok |-> TRUE, msg |-> ""]

validate_answer(question_key, answer) ==
    IF question_key = "zip_code"
    THEN [ok |-> Len(ZipNormalized(answer)) >= 5, msg |-> "Please enter a valid ZIP code"]
    ELSE IF question_key \in NumericKeys
    THEN NumericVerdict(question_key, answer)
    ELSE IF question_key = "filing_status"
    THEN [ok |-> FilingStatusNormalized(answer) \in valid_options,
          msg |-> "Please select a valid filing status"]
    ELSE [ok |-> TRUE, msg |-> ""]

\* the value process_answer stores under question_key, or the exception it raises
StoredValue(question_key, answer) ==
    IF question_key = "dependents"
    THEN LET val == ParseFloat(answer) IN IF Raised(val) THEN val ELSE IntOfFloat(val)
    ELSE IF question_key \in {"miles", "phone_percent", "home_office_sqft"}
    THEN ParseFloat(answer)
    ELSE IF question_key = "filing_status"
    THEN Str(FilingStatusNormalized(answer))
    ELSE Str(answer)

\* process_answer leaving the answer to the state question out of the dict
process_answer_DropsStateAnswer(question_key, answer, answers) ==
    LET v == StoredValue(question_key, answer)
    IN  IF Raised(v) THEN v
        ELSE IF question_key = "state_specific" THEN answers
        ELSE Put(answers, question_key, v)

\* the dict process_answer returns (its argument, updated in place), or the exception
process_answer(question_key, answer, answers) ==
    LET v == StoredValue(question_key, answer)
    IN  IF Raised(v) THEN v ELSE Put(answers, question_key, v)

-----------------------------------------------------------------------------
(* Inputs.                                                                 *)

\* config.py SUPPORTED_LANGUAGES, the four language buttons of start()
SUPPORTED_LANGUAGES == {"en", "es", "ru", "ar"}

\* the canonical keys of the KnowledgeBase
CanonicalKeys ==
    {"filing_status", "dependents", "zip_code", "gig_method", "miles",
     "phone_percent", "home_office_sqft", "state_specific"}

\* document types observed by the questionnaire
DocTypeSample == {"w2", "1099-nec"}

RECURSIVE SeqsUpTo(_, _)
SeqsUpTo(S, n) ==
    IF n = 0 THEN {<<>>}
    ELSE LET T == SeqsUpTo(S, n - 1) IN T \cup {Append(t, x) : t \in T, x \in S}

RECURSIVE StringsUpTo(_, _)
StringsUpTo(A, n) ==
    IF n = 0 THEN {""}
    ELSE LET T == StringsUpTo(A, n - 1) IN T \cup {t \o c : t \in T, c \in A}

\* sample values per key, as process_answer stores them; Absent marks a missing key
Absent == [absent |-> TRUE]

SampleValues ==
    [filing_status    : {Absent, Str("single")},
     dependents       : {Absent, PyInt(2)},
     zip_code         : {Absent, Str("90001"), Str("10001")},
     gig_method       : {Absent, Str("Standard Mileage Rate"), Str("Actual Expenses"),
                         Str("Gastos Reales")},
     miles            : {Absent, PyFloat("fin", FALSE, 120, "5")},
     phone_percent    : {Absent, PyFloat("fin", FALSE, 42, "")},
     home_office_sqft : {Absent, PyFloat("fin", FALSE, 150, "")},
     state_specific   : {Absent, Str("no")}]

DictOf(f) ==
    LET present == {k \in DOMAIN f : f[k] # Absent} IN [k \in present |-> f[k]]

SampleKnowledgeBases == {DictOf(f) : f \in SampleValues}

\* raw answers the questionnaire driver gives to the question asked for `key`:
\* for each key some that validate_answer accepts and some that it rejects
DriverAnswers(key) ==
    CASE key = "filing_status" -> {"single", "Soltero", "2"}
      [] key = "dependents"    -> {"2", "-1", "nan"}
      [] key = "zip_code"      -> {"90001", "10001", "9000"}
      [] key = "gig_method"    -> {"Standard Mileage Rate", "Actual Expenses",
                                   "Tarifa de Millaje Estándar", "Gastos Reales"}
      [] key = "phone_percent" -> {"42", "150"}
      [] key = "state_specific" -> {"no"}
      [] OTHER                 -> {"120.5", "x"}

-----------------------------------------------------------------------------
(* The questionnaire driver: get_next_question, then validate_answer and   *)
(* process_answer under the asked key, until no question remains.          *)

Idle == [idle |-> TRUE]

InitQA ==
    /\ \E kb \in SampleKnowledgeBases, dts \in SeqsUpTo(DocTypeSample, MaxDriverDocs),
          lang \in SUPPORTED_LANGUAGES :
          /\ user_data = [answers |-> kb, doc_types |-> dts, language |-> lang]
          /\ kb0 = kb
    /\ result = Idle
    /\ asked = <<>>
    /\ state = "driver"
    /\ keyboards = {}
    /\ reply = ""
    /\ raw = ""
    /\ verdict = Idle
    /\ stored = Idle

DriverAsk ==
    /\ result = Idle
    /\ result' = get_next_question(user_data.answers, user_data.doc_types, user_data.language)
    /\ asked' = IF IsQuestion(result') THEN Append(asked, result'.key) ELSE asked
    /\ UNCHANGED <<state, user_data, keyboards, reply, kb0, raw, verdict, stored>>

DriverAnswer ==
    /\ IsQuestion(result)
    /\ \E answer \in DriverAnswers(result.key) :
          LET v == validate_answer(result.key, answer)
              p == process_answer(result.key, answer, user_data.answers)
          IN  /\ raw' = answer
              /\ verdict' = v
              /\ IF v.ok /\ ~Raised(p)
                 THEN /\ user_data' = [user_data EXCEPT !.answers = p]
                      /\ result' = Idle
                 ELSE UNCHANGED <<user_data, result>>
    /\ UNCHANGED <<state, keyboards, reply, asked, kb0, stored>>

NextQA == DriverAsk \/ DriverAnswer

SpecQA == InitQA /\ [][NextQA]_vars

-----------------------------------------------------------------------------
(* Claims about the questionnaire engine, checked under SpecQA.            *)

\* the 1099 tags of the closed DocumentType set
Gig1099Types == {"1099-misc", "1099-k", "1099-nec"}

Observed1099 == \E i \in 1..Len(user_data.doc_types) : user_data.doc_types[i] \in Gig1099Types

ZipBegins8Or9 ==
    /\ "zip_code" \in DOMAIN user_data.answers
    /\ SubSeq(user_data.answers["zip_code"].s, 1, 1) \in {"8", "9"}

AskedKeys == {asked[i] : i \in 1..Len(asked)}

\* C1: get_next_question returns the sentinel or a question whose key is not a
\* key of the KnowledgeBase it was given; a present key is never asked again.
C1_NeverAsksPresentKey ==
    IsQuestion(result) => result.key \notin DOMAIN user_data.answers

C1_Witness ==
    /\ IsQuestion(result)
    /\ result.key = "state_specific"
    /\ {"filing_status", "dependents", "zip_code", "gig_method", "miles"}
          \subseteq DOMAIN user_data.answers

\* priority of a key in the transition rule
Rank(key) ==
    CASE key = "filing_status" -> 1
      [] key = "dependents" -> 2
      [] key = "zip_code" -> 3
      [] key = "gig_method" -> 4
      [] key \in {"miles", "phone_percent"} -> 5
      [] key = "home_office_sqft" -> 6
      [] key = "state_specific" -> 7

BasicKeys == <<"filing_status", "dependents", "zip_code">>

GigKeys == {"gig_method", "miles", "phone_percent", "home_office_sqft"}

\* C2: from an empty KnowledgeBase, storing each valid answer under the asked
\* key, the keys asked are filing_status, dependents, zip_code, then the gig
\* questions (only with a 1099 document), then state_specific (only with a zip
\* beginning with 8 or 9), in that order, and the sentinel comes only after them.
C2_PriorityOrder ==
    kb0 = EmptyDict =>
      /\ \A i \in 1..Len(asked) : \A j \in (i+1)..Len(asked) : Rank(asked[i]) < Rank(asked[j])
      /\ \A i \in 1..Len(asked) : i <= 3 => asked[i] = BasicKeys[i]
      /\ (AskedKeys \cap GigKeys # {}) => Observed1099
      /\ "state_specific" \in AskedKeys => ZipBegins8Or9
      /\ result = None =>
            /\ Len(asked) >= 3
            /\ Observed1099 => "gig_method" \in AskedKeys
            /\ ZipBegins8Or9 => "state_specific" \in AskedKeys

C2_Witness ==
    /\ kb0 = EmptyDict
    /\ result = None
    /\ asked = <<"filing_status", "dependents", "zip_code", "gig_method",
                 "phone_percent", "home_office_sqft", "state_specific">>

\* C3: with a 1099 document observed and gig_method answered with an option the
\* question offered in the prompt language, the standard-mileage option is
\* followed by miles (never phone_percent or home_office_sqft), the
\* actual-expenses option by phone_percent then home_office_sqft (never miles),
\* and the sentinel is not returned before those follow-ups were asked.
C3_FollowUpsMatchOfferedOption ==
    (/\ kb0 = EmptyDict
     /\ Observed1099
     /\ user_data.language \in DOMAIN options
     /\ "gig_method" \in DOMAIN user_data.answers) =>
      LET offered == options[user_data.language]["gig_method"]
          chosen  == user_data.answers["gig_method"].s
      IN  /\ chosen = offered[1] =>
                /\ AskedKeys \cap {"phone_percent", "home_office_sqft"} = {}
                /\ result = None => "miles" \in AskedKeys
          /\ chosen = offered[2] =>
                /\ "miles" \notin AskedKeys
                /\ result = None => {"phone_percent", "home_office_sqft"} \subseteq AskedKeys

\* C4: in each supported language get_next_question with a question pending
\* returns a question with a prompt text and raises no error; for ru and ar the
\* prompt is the en prompt.
C4_EveryLanguageGetsPrompt ==
    /\ ~Raised(result)
    /\ (IsQuestion(result) /\ user_data.language \in {"ru", "ar"}) =>
          result.question \in {questions["en"][k] : k \in DOMAIN questions["en"]}

\* C5: the sentinel is returned only when filing_status, dependents and zip_code
\* are present, gig_method is present whenever a 1099 document was observed and
\* state_specific is present whenever the zip begins with 8 or 9; and for that
\* KnowledgeBase and those document types the sentinel is returned again.
C5_SentinelOnlyWhenComplete ==
    result = None =>
      /\ {"filing_status", "dependents", "zip_code"} \subseteq DOMAIN user_data.answers
      /\ Observed1099 => "gig_method" \in DOMAIN user_data.answers
      /\ ZipBegins8Or9 => "state_specific" \in DOMAIN user_data.answers
      /\ \A lang \in SUPPORTED_LANGUAGES :
            get_next_question(user_data.answers, user_data.doc_types, lang) = None

C5_Witness ==
    /\ result = None
    /\ Observed1099
    /\ ZipBegins8Or9
    /\ user_data.language = "ru"

\* C25: from an empty KnowledgeBase, for any list of document types and prompt
\* language en or es, when every question returned is answered with an answer that
\* validate_answer accepts and process_answer stores under the asked key, no question
\* is returned twice and get_next_question returns the no-question sentinel after at
\* most 7 questions: the questionnaire loop terminates.
C25_AtMostSevenQuestions ==
    (kb0 = EmptyDict /\ user_data.language \in {"en", "es"}) =>
       /\ Len(asked) <= 7
       /\ \A i \in 1..Len(asked) : \A j \in (i+1)..Len(asked) : asked[i] # asked[j]
       /\ (Len(asked) = 7 /\ result = Idle) =>
             get_next_question(user_data.answers, user_data.doc_types,
                               user_data.language) = None

C25_Witness ==
    /\ kb0 = EmptyDict
    /\ user_data.language = "en"
    /\ Len(asked) = 7
    /\ result = None
    /\ DOMAIN user_data.answers = AskedKeys

\* C27: every option get_next_question offers for the filing_status question, in
\* each prompt language with an options table (en and es), is accepted by
\* validate_answer('filing_status', option).
C27_OfferedFilingStatusAccepted ==
    (/\ IsQuestion(result)
     /\ result.key = "filing_status"
     /\ user_data.language \in DOMAIN options) =>
       \A i \in 1..Len(result.options) :
          validate_answer("filing_status", result.options[i]).ok

-----------------------------------------------------------------------------
(* The validation driver: validate_answer on a raw answer for a key, then  *)
(* process_answer when the answer was accepted (the order of handle_answer).*)

NumAlphabet == {"0", "1", "-", ".", " "}

ZipAlphabet == {"1", "-", "a"}

NamedAnswers ==
    {"nan", "NaN", "inf", "-inf", "Infinity", "+1", "150", "42", "100.0", "100.5", "2.75",
     "90001", "90001-1234", "single", "Single", "SINGLE", "Head of Household",
     "head_of_household", "Married Filing Jointly", "Qualifying Widow(er)", "Soltero",
     "Standard Mileage Rate", "Gastos Reales", "no"}

RawAnswers ==
    StringsUpTo(NumAlphabet, MaxNumLen) \cup StringsUpTo(ZipAlphabet, MaxZipLen)
        \cup NamedAnswers

InitVal ==
    /\ raw \in RawAnswers
    /\ \E key \in CanonicalKeys :
          user_data = [answers |-> EmptyDict, current_question |-> [key |-> key]]
    /\ verdict = Idle
    /\ stored = Idle
    /\ state = "driver"
    /\ keyboards = {}
    /\ reply = ""
    /\ result = Idle
    /\ asked = <<>>
    /\ kb0 = EmptyDict

ValidateStep ==
    /\ verdict = Idle
    /\ verdict' = validate_answer(user_data.current_question.key, raw)
    /\ UNCHANGED <<state, user_data, keyboards, reply, result, asked, kb0, raw, stored>>

ProcessStep ==
    /\ verdict # Idle
    /\ verdict.ok
    /\ stored = Idle
    /\ LET key == user_data.current_question.key
           p   == process_answer(key, raw, user_data.answers)
       IN  IF Raised(p)
           THEN stored' = p /\ UNCHANGED user_data
           ELSE stored' = p[key] /\ user_data' = [user_data EXCEPT !.answers = p]
    /\ UNCHANGED <<state, keyboards, reply, result, asked, kb0, raw, verdict>>

NextVal == ValidateStep \/ ProcessStep

SpecVal == InitVal /\ [][NextVal]_vars

-----------------------------------------------------------------------------
(* Claims about validate_answer and process_answer, checked under SpecVal. *)

AskedKey == user_data.current_question.key

\* C8: validate_answer('zip_code', a) accepts a exactly when a, with its
\* hyphens removed, consists of at least 5 digits.
C8_ZipNeedsFiveDigits ==
    (AskedKey = "zip_code" /\ verdict # Idle) =>
      LET bare == Replace(raw, "-", "")
      IN  verdict.ok <=>
            (Len(bare) >= 5 /\ \A i \in 1..Len(bare) : CharAt(bare, i) \in DOMAIN DigitValue)

\* C9: for a numeric key validate_answer rejects what is not a parseable
\* number, rejects every negative number, for phone_percent rejects every value
\* outside [0,100], and accepts every other number with an empty message.
C9_NumericValidation ==
    (AskedKey \in {"dependents", "miles", "phone_percent", "home_office_sqft"}
       /\ verdict # Idle) =>
      LET val == ParseFloat(raw)
          bad == \/ Raised(val)
                 \/ FloatNegative(val)
                 \/ (AskedKey = "phone_percent" /\ ~FloatInPercentRange(val))
      IN  IF bad THEN ~verdict.ok ELSE verdict = [ok |-> TRUE, msg |-> ""]

C9_Witness ==
    /\ AskedKey = "phone_percent"
    /\ raw = "101"
    /\ verdict = [ok |-> FALSE, msg |-> "Percentage must be between 0 and 100"]

\* C10: process_answer stores a typed, normalized value: an int for dependents,
\* a float for miles, phone_percent and home_office_sqft, the lower-cased
\* underscore-joined string for filing_status, and for zip_code the hyphen-free
\* string that validation checked.
C10_StoresNormalizedTypedValue ==
    (stored # Idle /\ ~Raised(stored)) =>
      CASE AskedKey = "dependents" -> stored.t = "int"
        [] AskedKey \in {"miles", "phone_percent", "home_office_sqft"} -> stored.t = "float"
        [] AskedKey = "filing_status" -> stored = Str(Replace(Lower(raw), " ", "_"))
        [] AskedKey = "zip_code" -> stored = Str(Replace(raw, "-", ""))
        [] OTHER -> TRUE

\* C28: for every key and raw answer that validate_answer accepts, process_answer
\* completes without raising an error and the KnowledgeBase it returns contains the
\* key, numeric answers such as 'nan' and 'inf' included.
C28_AcceptedAnswerIsStored ==
    (verdict # Idle /\ verdict.ok /\ stored # Idle) =>
       /\ ~Raised(stored)
       /\ Has(user_data.answers, AskedKey)

-----------------------------------------------------------------------------
(* classifier.py: DocumentClassifier.                                      *)

\* the document types in declaration order, with their marker phrases
keyword_types == <<"w2", "1099-misc", "1099-k", "1099-nec", "1098", "receipt">>

keywords ==
    ("w2" :> <<"w-2", "wage and tax statement", "wages, tips, other compensation",
               "federal income tax withheld", "social security wages", "medicare wages",
               "box 1", "box 2", "box 3", "box 4", "box 5", "box 6">>)
    @@ ("1099-misc" :> <<"1099-misc", "miscellaneous income", "rents", "royalties",
                         "other income", "box 1", "box 2", "box 3", "box 4">>)
    @@ ("1099-k" :> <<"1099-k", "payment card", "third party network",
                      "merchant category code", "number of payment transactions",
                      "federal income tax withheld">>)
    @@ ("1099-nec" :> <<"1099-nec", "nonemployee compensation", "services you performed",
                        "box 1", "box 4", "box 5">>)
    @@ ("1098" :> <<"1098", "mortgage interest statement", "mortgage interest received",
                    "points paid", "outstanding mortgage principal">>)
    @@ ("receipt" :> <<"receipt", "invoice", "paid", "amount due", "total", "tax",
                       "subtotal", "payment received", "thank you for your business">>)

\* scores[doc_type]: the number of its marker phrases found in the lower-cased text
Score(doc_type, text_lower) ==
    Cardinality({i \in 1..Len(keywords[doc_type]) :
                    Contains(text_lower, Lower(keywords[doc_type][i]))})

\* MaxKey with a later key of equal score replacing the best one so far
RECURSIVE MaxKey_LastWins(_, _, _)
MaxKey_LastWins(text_lower, best, i) ==
    IF i > Len(keyword_types) THEN best
    ELSE MaxKey_LastWins(text_lower,
                         IF Score(keyword_types[i], text_lower) >= Score(best, text_lower)
                         THEN keyword_types[i] ELSE best,
                         i + 1)

\* max(scores, key=scores.get): the keys are visited in declaration order and a later
\* key replaces the best one so far only when its score is strictly greater
RECURSIVE MaxKey(_, _, _)
MaxKey(text_lower, best, i) ==
    IF i > Len(keyword_types) THEN best
    ELSE MaxKey(text_lower,
                IF Score(keyword_types[i], text_lower) > Score(best, text_lower)
                THEN keyword_types[i] ELSE best,
                i + 1)

classify_document(text) ==
    LET text_lower == Lower(text)
        best_match == MaxKey(text_lower, keyword_types[1], 2)
    IN  IF Score(best_match, text_lower) = 0 THEN "other" ELSE best_match

\* a float that is the quotient of two naturals
Ratio(num, den) == [t |-> "float", num |-> num, den |-> den]

get_confidence_score(text, doc_type) ==
    IF doc_type \notin DOMAIN keywords THEN Ratio(0, 1)
    ELSE LET matches == Score(doc_type, Lower(text))
             total_keywords == Len(keywords[doc_type])
         IN  IF total_keywords > 0 THEN Ratio(matches, total_keywords) ELSE Ratio(0, 1)

-----------------------------------------------------------------------------
(* extractor.py: DataExtractor.  The patterns are matched as the re module *)
(* matches them: the leftmost position first and, at a position, the       *)
(* alternatives and the greedy repetitions in their order of preference.   *)
(* A currency value is a float with two decimals and is held in cents.     *)

\* \w, for the ASCII characters of the texts
WordChars ==
    UpperLetters \cup {CharAt(LowerCase, i) : i \in 1..Len(LowerCase)}
        \cup DOMAIN DigitValue \cup {"_"}

IsWordAt(s, p) == p >= 1 /\ p <= Len(s) /\ CharAt(s, p) \in WordChars

\* \b before position p
WordBoundary(s, p) == IsWordAt(s, p - 1) # IsWordAt(s, p)

\* \d{n} at position p
DigitsAt(s, p, n) == p + n - 1 <= Len(s) /\ \A i \in p..(p + n - 1) : IsDigit(CharAt(s, i))

LitAt(s, p, c) == p <= Len(s) /\ CharAt(s, p) = c

\* re.search: the least of the positions where the pattern matches, 0 when there
\* is none
FirstPos(positions) ==
    IF positions = {} THEN 0 ELSE CHOOSE p \in positions : \A q \in positions : p <= q

\* \b\d{3}-\d{2}-\d{4}\b
SsnAt(s, p) ==
    /\ WordBoundary(s, p)
    /\ DigitsAt(s, p, 3) /\ LitAt(s, p + 3, "-")
    /\ DigitsAt(s, p + 4, 2) /\ LitAt(s, p + 6, "-")
    /\ DigitsAt(s, p + 7, 4)
    /\ WordBoundary(s, p + 11)

\* match.group(0) if match else None, for a match of n characters at p
GroupOrNone(text, p, n) == IF p = 0 THEN None ELSE Str(SubSeq(text, p, p + n - 1))

extract_ssn(text) == GroupOrNone(text, FirstPos({q \in 1..Len(text) : SsnAt(text, q)}), 11)

\* \b\d{2}-\d{7}\b
EinAt(s, p) ==
    /\ WordBoundary(s, p)
    /\ DigitsAt(s, p, 2) /\ LitAt(s, p + 2, "-")
    /\ DigitsAt(s, p + 3, 7)
    /\ WordBoundary(s, p + 10)

extract_ein(text) == GroupOrNone(text, FirstPos({q \in 1..Len(text) : EinAt(text, q)}), 10)

\* \d{1,2}/\d{1,2}/\d{4}\b at p with a and b digits: the position after the match
SlashDateEnd(s, p, a, b) ==
    IF /\ DigitsAt(s, p, a) /\ LitAt(s, p + a, "/")
       /\ DigitsAt(s, p + a + 1, b) /\ LitAt(s, p + a + b + 1, "/")
       /\ DigitsAt(s, p + a + b + 2, 4)
       /\ WordBoundary(s, p + a + b + 6)
    THEN p + a + b + 6 ELSE 0

\* \d{4}-\d{1,2}-\d{1,2}\b at p with a and b digits: the position after the match
DashDateEnd(s, p, a, b) ==
    IF /\ DigitsAt(s, p, 4) /\ LitAt(s, p + 4, "-")
       /\ DigitsAt(s, p + 5, a) /\ LitAt(s, p + a + 5, "-")
       /\ DigitsAt(s, p + a + 6, b)
       /\ WordBoundary(s, p + a + b + 6)
    THEN p + a + b + 6 ELSE 0

\* the digit counts of the two \d{1,2}, in the order the greedy match tries them
DigitCounts == <<<<2, 2>>, <<2, 1>>, <<1, 2>>, <<1, 1>>>>

\* \b(\d{1,2}/\d{1,2}/\d{4}|\d{4}-\d{1,2}-\d{1,2})\b at p: the position after the
\* match, 0 when there is none
\* the first of the ends that is not 0, 0 when all are
FirstEnd(ends) ==
    IF \E i \in DOMAIN ends : ends[i] # 0
    THEN ends[CHOOSE i \in DOMAIN ends : ends[i] # 0 /\ \A j \in 1..(i - 1) : ends[j] = 0]
    ELSE 0

DateEnd(s, p) ==
    IF WordBoundary(s, p)
    THEN FirstEnd([i \in 1..8 |->
                     IF i <= 4 THEN SlashDateEnd(s, p, DigitCounts[i][1], DigitCounts[i][2])
                     ELSE DashDateEnd(s, p, DigitCounts[i - 4][1], DigitCounts[i - 4][2])])
    ELSE 0

\* re.search(self.patterns['date'], text): group(0) or None
DateGroup(text, p) == IF p = 0 THEN None ELSE Str(SubSeq(text, p, DateEnd(text, p) - 1))

SearchDate(text) == DateGroup(text, FirstPos({q \in 1..Len(text) : DateEnd(text, q) # 0}))

\* (?:,\d{3})* at p: the number of groups the greedy repetition takes
RECURSIVE GroupsAt(_, _)
GroupsAt(s, p) ==
    IF LitAt(s, p, ",") /\ DigitsAt(s, p + 1, 3) THEN 1 + GroupsAt(s, p + 4) ELSE 0

\* \d+ at p: the number of digits the greedy repetition takes
RECURSIVE DigitRun(_, _)
DigitRun(s, p) == IF DigitsAt(s, p, 1) THEN 1 + DigitRun(s, p + 1) ELSE 0

\* \.\d{2} at p
CentsAt(s, p) == LitAt(s, p, ".") /\ DigitsAt(s, p + 1, 2)

\* \d{1,3}(?:,\d{3})*\.\d{2} at p with \d{1,3} taking n digits: the position after
\* the match of the most groups that lets \.\d{2} match, 0 when none does
GroupedEndWith(s, p, n) ==
    LET g == GroupsAt(s, p + n)
        fits == {k \in 0..g : CentsAt(s, p + n + 4 * k)}
    IN  IF DigitsAt(s, p, n) /\ fits # {}
        THEN p + n + 4 * (CHOOSE k \in fits : \A j \in fits : j <= k) + 3
        ELSE 0

\* the greedy \d{1,3} takes three digits, then two, then one
GroupedEnd(s, p) == FirstEnd([i \in 1..3 |-> GroupedEndWith(s, p, 4 - i)])

\* \d+\.\d{2} at p
PlainEnd(s, p) ==
    LET fits == {j \in 1..DigitRun(s, p) : CentsAt(s, p + j)}
    IN  IF fits # {} THEN p + (CHOOSE j \in fits : \A i \in fits : i <= j) + 3 ELSE 0

\* the group (\d{1,3}(?:,\d{3})*\.\d{2}|\d+\.\d{2}) at p
AmountEnd(s, p) == FirstEnd(<<GroupedEnd(s, p), PlainEnd(s, p)>>)

\* the currency pattern at p: where its group starts and the position after the
\* match; to = 0 when there is no match
CurrencyMatch(p, after_sign, unsigned) ==
    IF after_sign # 0 THEN [from |-> p + 1, to |-> after_sign]
    ELSE [from |-> p, to |-> unsigned]

CurrencyAt(s, p) ==
    CurrencyMatch(p, IF LitAt(s, p, "$") THEN AmountEnd(s, p + 1) ELSE 0, AmountEnd(s, p))

\* re.findall(self.patterns['currency'], text) from position p on: the group of
\* the leftmost match, then the matches after it
RECURSIVE FindAllCurrency(_, _)
FindAllCurrency(s, p) ==
    LET q == FirstPos({i \in p..Len(s) : CurrencyAt(s, i).to # 0})
        m == CurrencyAt(s, q)
    IN  IF q = 0 THEN <<>>
        ELSE <<SubSeq(s, m.from, m.to - 1)>> \o FindAllCurrency(s, m.to)

\* float(match.replace(',', '').replace('$', '')), in cents
CleanValue(match) ==
    LET clean_value == Replace(Replace(match, ",", ""), "$", "")
        dot == IndexOf(clean_value, ".")
    IN  100 * NatOf(SubSeq(clean_value, 1, dot - 1))
           + NatOf(SubSeq(clean_value, dot + 1, Len(clean_value)))

\* a float holding an amount of money
Amount(cents) == [t |-> "float", cents |-> cents]

\* the loop of extract_currency_values over the matches
CleanValues(matches) == [i \in 1..Len(matches) |-> Amount(CleanValue(matches[i]))]

extract_currency_values(text) == CleanValues(FindAllCurrency(text, 1))

box_mappings ==
    <<"wages_tips_other_comp", "federal_income_tax_withheld", "social_security_wages",
      "social_security_tax_withheld", "medicare_wages", "medicare_tax_withheld">>

\* MapBoxes with the boxes numbered from the loop index, not from index + 1
RECURSIVE MapBoxes_FromZero(_, _, _)
MapBoxes_FromZero(data, values, i) ==
    IF i >= Len(values) THEN data
    ELSE LET box_num == i
         IN  MapBoxes_FromZero(IF box_num \in DOMAIN box_mappings
                               THEN Put(data, box_mappings[box_num], values[i + 1]) ELSE data,
                               values, i + 1)

\* the loop of extract_w2_data over currency_values[:6]
RECURSIVE MapBoxes(_, _, _)
MapBoxes(data, values, i) ==
    IF i >= Len(values) THEN data
    ELSE LET box_num == i + 1
         IN  MapBoxes(IF box_num \in DOMAIN box_mappings
                      THEN Put(data, box_mappings[box_num], values[i + 1]) ELSE data,
                      values, i + 1)

\* values[:n]
Prefix(values, n) == IF Len(values) > n THEN SubSeq(values, 1, n) ELSE values

extract_w2_data(text) ==
    MapBoxes(Put(EmptyDict, "ssn", extract_ssn(text)),
             Prefix(extract_currency_values(text), 6), 0)

\* the part of extract_1099_data that stores the first two currency values
Map1099(data, currency_values) ==
    LET data1 == IF Len(currency_values) >= 1
                 THEN Put(data, "nonemployee_compensation", currency_values[1]) ELSE data
    IN  IF Len(currency_values) >= 2
        THEN Put(data1, "federal_income_tax_withheld", currency_values[2]) ELSE data1

extract_1099_data(text) ==
    Map1099(Put(Put(EmptyDict, "ssn", extract_ssn(text)), "ein", extract_ein(text)),
            extract_currency_values(text))

\* MaxAmount taking the last value
MaxAmount_Last(values) == values[Len(values)]

\* max(currency_values)
MaxAmount(values) ==
    values[CHOOSE i \in 1..Len(values) : \A j \in 1..Len(values) : values[j].cents <= values[i].cents]

\* the part of extract_receipt_data that stores the total and the date
MapReceipt(currency_values, date_match) ==
    LET data1 == IF currency_values # <<>>
                 THEN Put(EmptyDict, "total_amount", MaxAmount(currency_values)) ELSE EmptyDict
    IN  IF date_match # None THEN Put(data1, "date", date_match) ELSE data1

extract_receipt_data(text) == MapReceipt(extract_currency_values(text), SearchDate(text))

extract_data(text, doc_type) ==
    IF doc_type = "w2" THEN extract_w2_data(text)
    ELSE IF StartsWith(doc_type, "1099") THEN extract_1099_data(text)
    ELSE IF doc_type = "receipt" THEN extract_receipt_data(text)
    ELSE EmptyDict

-----------------------------------------------------------------------------
(* The classifier and the extractor driven on sampled document texts:      *)
(* raw is the text, verdict the classification, stored the extraction.     *)

DocumentTypes == {keyword_types[i] : i \in 1..Len(keyword_types)} \cup {"other"}

MarkerTokens ==
    {"W-2", "Box 1", "1099-NEC", "federal income tax withheld", "Points Paid", "Subtotal",
     "n/a"}

FieldTokens ==
    {"123-45-6789", "987-65-4321", "12-3456789", "1/15/2024", "2024-1-5", "$1,234.56",
     "10.00"}

AmountTokens == {"10.00", "$2,500.50"}

\* the words of a text separated by blanks
RECURSIVE JoinWords(_)
JoinWords(words) ==
    IF words = <<>> THEN ""
    ELSE IF Len(words) = 1 THEN words[1]
    ELSE words[1] \o " " \o JoinWords(Tail(words))

DocTexts ==
    {JoinWords(w) : w \in SeqsUpTo(MarkerTokens, MaxMarkers)}
        \cup {JoinWords(w) : w \in SeqsUpTo(FieldTokens, MaxFields)}
        \cup {JoinWords(w) : w \in SeqsUpTo(AmountTokens, MaxAmounts)}

InitDoc ==
    /\ raw \in DocTexts
    /\ verdict = Idle
    /\ stored = Idle
    /\ state = "driver"
    /\ user_data = EmptyDict
    /\ keyboards = {}
    /\ reply = ""
    /\ result = Idle
    /\ asked = <<>>
    /\ kb0 = EmptyDict

ClassifyStep ==
    /\ verdict = Idle
    /\ verdict' = [doc_type |-> classify_document(raw),
                   confidence |-> get_confidence_score(raw, classify_document(raw))]
    /\ UNCHANGED <<state, user_data, keyboards, reply, result, asked, kb0, raw, stored>>

ExtractStep ==
    /\ verdict # Idle
    /\ stored = Idle
    /\ \E doc_type \in DocumentTypes :
          stored' = [doc_type |-> doc_type, data |-> extract_data(raw, doc_type)]
    /\ UNCHANGED <<state, user_data, keyboards, reply, result, asked, kb0, raw, verdict>>

NextDoc == ClassifyStep \/ ExtractStep

SpecDoc == InitDoc /\ [][NextDoc]_vars

-----------------------------------------------------------------------------
(* Claims about classification and extraction, checked under SpecDoc.      *)

\* the distinct marker phrases of doc_type that occur in the lower-cased text
PhrasesFound(doc_type, text) ==
    LET text_lower == Lower(text)
    IN  {phrase \in {Lower(keywords[doc_type][i]) : i \in 1..Len(keywords[doc_type])} :
            Contains(text_lower, phrase)}

\* how many distinct marker phrases of each type occur in the text
PhraseCounts(text) == [t \in DOMAIN keywords |-> Cardinality(PhrasesFound(t, text))]

TopCount(counts) ==
    CHOOSE n \in {counts[t] : t \in DOMAIN counts} : \A t \in DOMAIN counts : counts[t] <= n

\* C11: the classification is the type with the most distinct marker phrases in the
\* lower-cased text, the first declared one among those that share the highest
\* count, and 'other' when the highest count is 0: always one tag of DocumentType.
C11_HighestScoreFirstDeclared ==
    verdict # Idle =>
        LET counts == PhraseCounts(raw)
            top == TopCount(counts)
        IN  /\ verdict.doc_type \in DocumentTypes
            /\ top = 0 => verdict.doc_type = "other"
            /\ top > 0 =>
                  \E i \in 1..Len(keyword_types) :
                     /\ verdict.doc_type = keyword_types[i]
                     /\ counts[keyword_types[i]] = top
                     /\ \A j \in 1..(i - 1) : counts[keyword_types[j]] < top

C11_Witness ==
    /\ raw = "Points Paid Box 1 federal income tax withheld"
    /\ verdict # Idle
    /\ verdict.doc_type = "w2"

\* C13: no key of the mapping returned by extract_data holds the None placeholder: a
\* field whose pattern has no match is absent.
C13_NoPlaceholderValue ==
    stored # Idle => \A k \in DOMAIN stored.data : stored.data[k] # None

BoxFields == {box_mappings[n] : n \in 1..6}

\* C14: for a W-2 the n-th currency value matched (n = 1..6) is stored as box n's
\* field, later matches are ignored and with k < 6 matches exactly the first k box
\* fields are present; for a 1099 type the first value is nonemployee_compensation
\* and the second federal_income_tax_withheld.
C14_PositionalMapping ==
    stored # Idle =>
        LET values == extract_currency_values(raw)
            data == stored.data
        IN  /\ stored.doc_type = "w2" =>
                  /\ DOMAIN data \cap BoxFields = {box_mappings[n] : n \in 1..6 \cap 1..Len(values)}
                  /\ \A n \in 1..6 \cap 1..Len(values) : data[box_mappings[n]] = values[n]
            /\ StartsWith(stored.doc_type, "1099") =>
                  /\ Has(data, "nonemployee_compensation") <=> Len(values) >= 1
                  /\ Has(data, "federal_income_tax_withheld") <=> Len(values) >= 2
                  /\ Len(values) >= 1 => data["nonemployee_compensation"] = values[1]
                  /\ Len(values) >= 2 => data["federal_income_tax_withheld"] = values[2]
                  /\ DOMAIN data \cap BoxFields \subseteq {"federal_income_tax_withheld"}

C14_Witness ==
    /\ stored # Idle
    /\ stored.doc_type = "w2"
    /\ raw = "10.00 $2,500.50 10.00 10.00 $2,500.50 $2,500.50 10.00"
    /\ stored.data["federal_income_tax_withheld"] = Amount(250050)
    /\ stored.data["medicare_tax_withheld"] = Amount(250050)

\* C15: a receipt's total_amount is the maximum of the currency values matched and its
\* date the first date match; each key is absent when there is no match.
C15_ReceiptMaxAndFirstDate ==
    (stored # Idle /\ stored.doc_type = "receipt") =>
        LET values == extract_currency_values(raw)
            data == stored.data
            dates == {p \in 1..Len(raw) : DateEnd(raw, p) # 0}
        IN  /\ DOMAIN data \subseteq {"total_amount", "date"}
            /\ Has(data, "total_amount") <=> values # <<>>
            /\ values # <<>> =>
                  /\ \E i \in 1..Len(values) : data["total_amount"] = values[i]
                  /\ \A i \in 1..Len(values) : values[i].cents <= data["total_amount"].cents
            /\ Has(data, "date") <=> dates # {}
            /\ dates # {} =>
                  \E p \in dates :
                     /\ \A q \in dates : p <= q
                     /\ data["date"] = Str(SubSeq(raw, p, DateEnd(raw, p) - 1))

C15_Witness ==
    /\ stored # Idle
    /\ stored.doc_type = "receipt"
    /\ raw = "2024-1-5 $1,234.56 1/15/2024"
    /\ stored.data = [total_amount |-> Amount(123456), date |-> Str("2024-1-5")]

-----------------------------------------------------------------------------
(* ocr.py: OCRProcessor.  The text recognizer is external; a document's     *)
(* file_bytes are represented by the text it reads from them.  A PDF yields *)
(* the empty string; a failure of the recognizer is caught and yields the   *)
(* empty string too.                                                        *)

extract_text_from_pdf(file_bytes) == ""

extract_text(file_bytes) == Strip(file_bytes)

-----------------------------------------------------------------------------
(* tax_engine.py: TaxEngine.  Money is held in cents.  A product of an      *)
(* amount and a rate is held exactly, as whole cents w and a remainder r in *)
(* millionths of a cent; a rate is held in millionths.  round(x, 2) yields  *)
(* a nearest cent; where x lies half-way between two cents the float that   *)
(* holds x may lie on either side, so either cent can result: argument up   *)
(* of Round2 says which.                                                    *)

Million == 1000000

Fixed(w, r) == [w |-> w, r |-> r]

\* cents * rate, with cents below 2 * 10^9 and rate at most 10^6 millionths
MulRate(cents, rate) ==
    LET x0 == cents % 1000
        x1 == (cents \div 1000) % 1000
        x2 == cents \div Million
        p0 == x0 * rate
        p1 == x1 * rate
        p2 == x2 * rate
        rsum == (p0 % Million) + (p1 % 1000) * 1000
    IN  Fixed(p2 + (p1 \div 1000) + (p0 \div Million) + (rsum \div Million), rsum % Million)

AddFixed(a, b) == Fixed(a.w + b.w + ((a.r + b.r) \div Million), (a.r + b.r) % Million)

\* round(x, 2), in cents
Round2(x, up) == IF x.r > 500000 \/ (x.r = 500000 /\ up) THEN x.w + 1 ELSE x.w

\* float('inf'): above every amount of the model
Inf == 2147483647

\* (min_income, max_income, rate): the incomes in dollars, the rate in millionths
federal_brackets ==
    [single |-> <<<<0, 11000, 100000>>, <<11000, 44725, 120000>>, <<44725, 95375, 220000>>,
                  <<95375, 182100, 240000>>, <<182100, 231250, 320000>>,
                  <<231250, 578125, 350000>>, <<578125, Inf, 370000>>>>,
     married_filing_jointly |->
                <<<<0, 22000, 100000>>, <<22000, 89450, 120000>>, <<89450, 190750, 220000>>,
                  <<190750, 364200, 240000>>, <<364200, 462500, 320000>>,
                  <<462500, 693750, 350000>>, <<693750, Inf, 370000>>>>]

\* in dollars
standard_deduction == [single |-> 13850, married_filing_jointly |-> 27700]

\* a dollar amount of the tables, in cents
InCents(dollars) == IF dollars = Inf THEN Inf ELSE 100 * dollars

\* the sites of round(_, 2) in one calculation, each with its own outcome at a tie
RoundingSites ==
    {"tax_owed", "state_tax_owed", "social_security_tax", "medicare_tax",
     "additional_medicare_tax", "total_tax"}

\* the outcomes of the roundings at the given sites
TiesAt(sites) == {[s \in RoundingSites |-> s \in up] : up \in SUBSET sites}

\* BracketLoop taxing the whole income above a bracket's lower bound in that bracket
RECURSIVE BracketLoop_NoUpperBound(_, _, _, _)
BracketLoop_NoUpperBound(taxable_income, brackets, i, tax_owed) ==
    IF i > Len(brackets) THEN tax_owed
    ELSE LET min_income == InCents(brackets[i][1])
             rate == brackets[i][3]
         IN  IF taxable_income > min_income
             THEN BracketLoop_NoUpperBound(taxable_income, brackets, i + 1,
                      AddFixed(tax_owed, MulRate(taxable_income - min_income, rate)))
             ELSE tax_owed

\* the loop of _calculate_progressive_tax from bracket i on: tax_owed before rounding
RECURSIVE BracketLoop(_, _, _, _)
BracketLoop(taxable_income, brackets, i, tax_owed) ==
    IF i > Len(brackets) THEN tax_owed
    ELSE LET min_income == InCents(brackets[i][1])
             max_income == InCents(brackets[i][2])
             rate == brackets[i][3]
         IN  IF taxable_income > min_income
             THEN LET taxable_in_bracket ==
                         IF taxable_income - min_income <= max_income - min_income
                         THEN taxable_income - min_income ELSE max_income - min_income
                  IN  BracketLoop(taxable_income, brackets, i + 1,
                                  AddFixed(tax_owed, MulRate(taxable_in_bracket, rate)))
             ELSE tax_owed

_calculate_progressive_tax(taxable_income, filing_status, ties) ==
    LET brackets == Get(federal_brackets, filing_status, federal_brackets["single"])
    IN  Round2(BracketLoop(taxable_income, brackets, 1, Fixed(0, 0)), ties["tax_owed"])

\* a field of a record's data as an amount in cents, 0 when it is absent
DataCents(data, field) == IF Has(data, field) THEN data[field].cents ELSE 0

\* the sum of `field` over the records of extracted_data of the given types
RECURSIVE SumOver(_, _, _)
SumOver(extracted_data, types, field) ==
    IF types = {} THEN 0
    ELSE LET doc_type == CHOOSE t \in types : TRUE
             rest == SumOver(extracted_data, types \ {doc_type}, field)
         IN  IF Has(extracted_data[doc_type], "data")
             THEN rest + DataCents(extracted_data[doc_type]["data"], field)
             ELSE rest

\* the keys of extracted_data with doc_type == 'w2'
W2Types(extracted_data) == {doc_type \in DOMAIN extracted_data : doc_type = "w2"}

\* the keys of extracted_data with doc_type.startswith('1099')
Types1099(extracted_data) == {doc_type \in DOMAIN extracted_data : StartsWith(doc_type, "1099")}

\* user_answers.get('filing_status', 'single')
FilingStatusOf(user_answers) == Get(user_answers, "filing_status", Str("single")).s

\* calculate_federal_tax with the refund taken whenever something was withheld
calculate_federal_tax_RefundIfWithheld(tax_input, ties) ==
    LET extracted_data == Get(tax_input, "extracted_data", EmptyDict)
        user_answers == Get(tax_input, "user_answers", EmptyDict)
        filing_status == FilingStatusOf(user_answers)
        total_wages == SumOver(extracted_data, W2Types(extracted_data),
                               "wages_tips_other_comp")
        total_withheld == SumOver(extracted_data, W2Types(extracted_data),
                                  "federal_income_tax_withheld")
        deduction == InCents(Get(standard_deduction, filing_status, 0))
        taxable_income == IF total_wages - deduction > 0 THEN total_wages - deduction ELSE 0
        tax_owed == _calculate_progressive_tax(taxable_income, filing_status, ties)
    IN  [taxable_income |-> taxable_income,
         tax_owed |-> tax_owed,
         withheld |-> total_withheld,
         refund |-> IF total_withheld > 0 THEN total_withheld - tax_owed ELSE 0,
         amount_due |-> IF total_withheld > 0 THEN 0 ELSE tax_owed - total_withheld]

calculate_federal_tax(tax_input, ties) ==
    LET extracted_data == Get(tax_input, "extracted_data", EmptyDict)
        user_answers == Get(tax_input, "user_answers", EmptyDict)
        filing_status == FilingStatusOf(user_answers)
        total_wages == SumOver(extracted_data, W2Types(extracted_data),
                               "wages_tips_other_comp")
        total_withheld == SumOver(extracted_data, W2Types(extracted_data),
                                  "federal_income_tax_withheld")
        deduction == InCents(Get(standard_deduction, filing_status, 0))
        taxable_income == IF total_wages - deduction > 0 THEN total_wages - deduction ELSE 0
        tax_owed == _calculate_progressive_tax(taxable_income, filing_status, ties)
    IN  [taxable_income |-> taxable_income,
         tax_owed |-> tax_owed,
         withheld |-> total_withheld,
         refund |-> IF total_withheld > tax_owed THEN total_withheld - tax_owed ELSE 0,
         amount_due |-> IF total_withheld > tax_owed THEN 0 ELSE tax_owed - total_withheld]

calculate_state_tax(tax_input, state_code, ties) ==
    LET extracted_data == Get(tax_input, "extracted_data", EmptyDict)
        total_wages == SumOver(extracted_data, W2Types(extracted_data),
                               "wages_tips_other_comp")
        state_tax_owed == Round2(MulRate(total_wages, 133000), ties["state_tax_owed"])
    IN  IF Lower(state_code) = "ca"   \* state.upper() == 'CA'
        THEN [state |-> state_code, taxable_income |-> total_wages,
              tax_owed |-> state_tax_owed, refund |-> 0, amount_due |-> state_tax_owed]
        ELSE [state |-> state_code, tax_owed |-> 0, refund |-> 0, amount_due |-> 0]

\* in cents: the 2023 social-security wage base and the additional-Medicare threshold
SS_WAGE_BASE == 16020000

ADDITIONAL_MEDICARE_THRESHOLD == 20000000

\* calculate_self_employment_tax without the wage-base ceiling
calculate_self_employment_tax_NoCeiling(tax_input, ties) ==
    LET extracted_data == Get(tax_input, "extracted_data", EmptyDict)
        total_1099_income == SumOver(extracted_data, Types1099(extracted_data),
                                     "nonemployee_compensation")
        social_security_tax == MulRate(total_1099_income, 114514)
        medicare_tax == MulRate(total_1099_income, 29000)
        additional_medicare_tax ==
            IF total_1099_income > ADDITIONAL_MEDICARE_THRESHOLD
            THEN MulRate(total_1099_income - ADDITIONAL_MEDICARE_THRESHOLD, 9000)
            ELSE Fixed(0, 0)
        total_tax == AddFixed(AddFixed(social_security_tax, medicare_tax),
                              additional_medicare_tax)
    IN  IF total_1099_income = 0
        THEN [total_income |-> 0, social_security_tax |-> 0, medicare_tax |-> 0,
              total_tax |-> 0]
        ELSE [total_income |-> total_1099_income,
              social_security_tax |-> Round2(social_security_tax, ties["social_security_tax"]),
              medicare_tax |-> Round2(medicare_tax, ties["medicare_tax"]),
              additional_medicare_tax |->
                  Round2(additional_medicare_tax, ties["additional_medicare_tax"]),
              total_tax |-> Round2(total_tax, ties["total_tax"])]

calculate_self_employment_tax(tax_input, ties) ==
    LET extracted_data == Get(tax_input, "extracted_data", EmptyDict)
        total_1099_income == SumOver(extracted_data, Types1099(extracted_data),
                                     "nonemployee_compensation")
        \* min(total_1099_income * 0.9235, 160200) * 0.124; below the wage base this
        \* is total_1099_income * 0.114514
        uncapped_base == MulRate(total_1099_income, 923500)
        social_security_tax ==
            IF uncapped_base.w >= SS_WAGE_BASE THEN MulRate(SS_WAGE_BASE, 124000)
            ELSE MulRate(total_1099_income, 114514)
        medicare_tax == MulRate(total_1099_income, 29000)
        additional_medicare_tax ==
            IF total_1099_income > ADDITIONAL_MEDICARE_THRESHOLD
            THEN MulRate(total_1099_income - ADDITIONAL_MEDICARE_THRESHOLD, 9000)
            ELSE Fixed(0, 0)
        total_tax == AddFixed(AddFixed(social_security_tax, medicare_tax),
                              additional_medicare_tax)
    IN  IF total_1099_income = 0
        THEN [total_income |-> 0, social_security_tax |-> 0, medicare_tax |-> 0,
              total_tax |-> 0]
        ELSE [total_income |-> total_1099_income,
              social_security_tax |-> Round2(social_security_tax, ties["social_security_tax"]),
              medicare_tax |-> Round2(medicare_tax, ties["medicare_tax"]),
              additional_medicare_tax |->
                  Round2(additional_medicare_tax, ties["additional_medicare_tax"]),
              total_tax |-> Round2(total_tax, ties["total_tax"])]

-----------------------------------------------------------------------------
(* benefits.py: BenefitsEngine.  An income is a whole number of dollars.   *)
(* Of a BenefitMatch the program, the likely flag and the estimated amount  *)
(* are held; its reason and apply_url are display texts.  An estimated      *)
(* amount that is a float is held exactly, as a Ratio.                      *)

\* a list stored as a value of a dict
PyList(items) == [t |-> "list", items |-> items]

BenefitMatch(program, estimated_amount) ==
    [program |-> program, likely |-> TRUE, estimated_amount |-> estimated_amount]

zip_state_map == ("9" :> "CA") @@ ("8" :> "CA") @@ ("7" :> "OR") @@ ("6" :> "WA")

_get_state_from_zip(zip_code) ==
    IF zip_code = "" THEN "CA" ELSE Get(zip_state_map, CharAt(zip_code, 1), "CA")

_check_eitc_eligibility(income, dependents, filing_status) ==
    LET max_income == Get((0 :> 17050) @@ (1 :> 24000) @@ (2 :> 24000) @@ (3 :> 24000),
                          dependents, 24000)
    IN  income <= max_income /\ dependents >= 0

\* base_credit is an int; max(0, base_credit - reduction) is the int 0 unless the
\* difference, a float, is positive
_estimate_eitc(income, dependents) ==
    LET base_credit == dependents * 400
        phase_out_start == 9000 + dependents * 1000
        \* base_credit - (income - phase_out_start) * 0.0765, in ten-thousandths
        reduced == base_credit * 10000 - (income - phase_out_start) * 765
    IN  IF income > phase_out_start
        THEN IF reduced > 0 THEN Ratio(reduced, 10000) ELSE PyInt(0)
        ELSE PyInt(base_credit)

\* federal_eitc * 0.035
_estimate_caleitc(federal_eitc) ==
    Ratio((IF federal_eitc.t = "int" THEN federal_eitc.n * 10000 ELSE federal_eitc.num) * 35,
          10000000)

\* monthly_income = income / 12 is at most gross_limit exactly when income is at most
\* 12 * gross_limit
_check_snap_eligibility(income, dependents, zip_code) ==
    LET household_size == dependents + 1
        gross_limit == Get(<<1526, 2064, 2602, 3140, 3678, 4216, 4754, 5292>>,
                           IF household_size < 8 THEN household_size ELSE 8,
                           5292 + (household_size - 8) * 448)
    IN  income <= 12 * gross_limit

\* the household sizes below 13 for which the float household_size * 15000 * (138 / 100)
\* lies just under household_size * 20700 (62099.99999999999 for 3); for the others
\* the product is exact
MediCalLimitBelow == {3, 5, 6, 10, 11, 12}

_check_medi_cal_eligibility(income, dependents) ==
    LET household_size == dependents + 1
    IN  IF household_size \in MediCalLimitBelow THEN income < household_size * 20700
        ELSE income <= household_size * 20700

_check_liheap_eligibility(income, dependents, zip_code) ==
    LET household_size == dependents + 1
    IN  income <= household_size * 12000

\* sum(1 for dep in dependents_details if dep.get('age', 0) < 6)
YoungChildren(dependents_details) ==
    Cardinality({i \in 1..Len(dependents_details) :
                    Get(dependents_details[i], "age", PyInt(0)).n < 6})

\* benefits.append(match) under `if condition`
AppendIf(condition, match) == IF condition THEN <<match>> ELSE <<>>

\* the rules of screen_benefits with WIC evaluated before SNAP
ScreenRules_WicBeforeSnap(income, dependents, filing_status, zip_code, state_code, young_children) ==
    AppendIf(_check_eitc_eligibility(income, dependents, filing_status),
             BenefitMatch("Earned Income Tax Credit (EITC)", _estimate_eitc(income, dependents)))
    \o AppendIf(dependents > 0,
             BenefitMatch("Child Tax Credit",
                          PyInt(IF dependents * 2000 < 0 THEN dependents * 2000 ELSE 0)))
    \o AppendIf(state_code = "CA" /\ _check_eitc_eligibility(income, dependents, filing_status),
             BenefitMatch("California Earned Income Tax Credit (CalEITC)",
                          _estimate_caleitc(_estimate_eitc(income, dependents))))
    \o AppendIf(state_code = "CA" /\ dependents > 0 /\ young_children > 0,
             BenefitMatch("Young Child Tax Credit (California)", PyInt(young_children * 129)))
    \o AppendIf(dependents > 0, BenefitMatch("WIC (Women, Infants, and Children)", None))
    \o AppendIf(_check_snap_eligibility(income, dependents, zip_code),
             BenefitMatch("SNAP (Food Stamps)", None))
    \o AppendIf(state_code = "CA" /\ _check_medi_cal_eligibility(income, dependents),
             BenefitMatch("Medi-Cal (California Medicaid)", None))
    \o AppendIf(_check_liheap_eligibility(income, dependents, zip_code),
             BenefitMatch("LIHEAP (Home Energy Assistance)", None))

\* the rules of screen_benefits, each appending its match to the list in turn
ScreenRules(income, dependents, filing_status, zip_code, state_code, young_children) ==
    AppendIf(_check_eitc_eligibility(income, dependents, filing_status),
             BenefitMatch("Earned Income Tax Credit (EITC)", _estimate_eitc(income, dependents)))
    \o AppendIf(dependents > 0,
             \* min(dependents * 2000, 0)
             BenefitMatch("Child Tax Credit",
                          PyInt(IF dependents * 2000 < 0 THEN dependents * 2000 ELSE 0)))
    \o AppendIf(state_code = "CA" /\ _check_eitc_eligibility(income, dependents, filing_status),
             BenefitMatch("California Earned Income Tax Credit (CalEITC)",
                          _estimate_caleitc(_estimate_eitc(income, dependents))))
    \o AppendIf(state_code = "CA" /\ dependents > 0 /\ young_children > 0,
             BenefitMatch("Young Child Tax Credit (California)", PyInt(young_children * 129)))
    \o AppendIf(_check_snap_eligibility(income, dependents, zip_code),
             BenefitMatch("SNAP (Food Stamps)", None))
    \o AppendIf(dependents > 0, BenefitMatch("WIC (Women, Infants, and Children)", None))
    \o AppendIf(state_code = "CA" /\ _check_medi_cal_eligibility(income, dependents),
             BenefitMatch("Medi-Cal (California Medicaid)", None))
    \o AppendIf(_check_liheap_eligibility(income, dependents, zip_code),
             BenefitMatch("LIHEAP (Home Energy Assistance)", None))

\* income is tax_data.get('summary', {}).get('agi', 0)
BenefitsIncome(tax_data) == Get(Get(tax_data, "summary", EmptyDict), "agi", PyInt(0)).n

screen_benefits(answers, tax_data) ==
    ScreenRules(BenefitsIncome(tax_data),
                Get(answers, "dependents", PyInt(0)).n,
                Get(answers, "filing_status", Str("single")).s,
                Get(answers, "zip_code", Str("")).s,
                _get_state_from_zip(Get(answers, "zip_code", Str("")).s),
                YoungChildren(Get(answers, "dependents_details", PyList(<<>>)).items))

-----------------------------------------------------------------------------
(* validator.py is not among the sources: DataValidator.validate_data is   *)
(* the stub the specification describes, which reports its issues as data  *)
(* and never blocks the flow.                                              *)

validate_data(data, doc_type) == [ok |-> TRUE, issues |-> <<>>]

\* the record process_documents keeps for a document
ExtractionRecord(data, doc_type) ==
    [data |-> data, validation |-> validate_data(data, doc_type), confidence |-> "0.8"]

-----------------------------------------------------------------------------
(* config.py: the deduction table of Config.                               *)

FEDERAL_STANDARD_DEDUCTION ==
    [single |-> 13850, married_filing_jointly |-> 27700, married_filing_separately |-> 13850,
     head_of_household |-> 20800, qualifying_widow |-> 27700]

-----------------------------------------------------------------------------
(* The tax engine driven on sampled calculation inputs: user_data is the   *)
(* tax_input (or the arguments of _calculate_progressive_tax), result the  *)
(* value returned.                                                         *)

\* wages in cents
WageSamples ==
    {1000000, 1385000, 1385005, 6000000, 6000055, 70000000}
        \cup {k * 1234567 : k \in 0..MaxWageSteps}

WithheldSamples == {Absent, Amount(546050), Amount(900000)}

W2Records ==
    {Absent} \cup
    {ExtractionRecord(DictOf([ssn |-> None, wages_tips_other_comp |-> w,
                              federal_income_tax_withheld |-> h]), "w2") :
        w \in {Absent} \cup {Amount(c) : c \in WageSamples}, h \in WithheldSamples}

\* 1099 income in cents
IncomeSamples == {4, 500, 123456, 500000, 18000000, 25000000}

NecRecords ==
    {Absent} \cup
    {ExtractionRecord(DictOf([ssn |-> None, ein |-> None, nonemployee_compensation |-> c]),
                      "1099-nec") :
        c \in {Absent} \cup {Amount(c) : c \in IncomeSamples}}

MiscRecords ==
    {Absent,
     ExtractionRecord([ssn |-> None, ein |-> None, nonemployee_compensation |-> Amount(100000)],
                      "1099-misc")}

SampleExtractedData ==
    {DictOf(("w2" :> w) @@ ("1099-nec" :> n) @@ ("1099-misc" :> m)) :
        w \in W2Records, n \in NecRecords, m \in MiscRecords}

SampleUserAnswers ==
    {EmptyDict} \cup {[filing_status |-> Str(fs)] : fs \in DOMAIN FEDERAL_STANDARD_DEDUCTION}

\* taxable incomes in cents
TaxableIncomes ==
    {0, 1, 5, 1100000, 1100001, 4472500, 4615000, 4615055, 5000000, 9537500, 18210000,
     23125000, 57812500, 57812501, 70000000}
        \cup {k * 250025 : k \in 0..MaxIncomeSteps}

InitCalc ==
    /\ \/ \E ed \in SampleExtractedData, ua \in SampleUserAnswers :
             user_data = [extracted_data |-> ed, user_answers |-> ua]
       \/ \E ti \in TaxableIncomes, fs \in DOMAIN FEDERAL_STANDARD_DEDUCTION :
             user_data = [taxable_income |-> ti, filing_status |-> fs]
    /\ result = Idle
    /\ state = "driver"
    /\ keyboards = {}
    /\ reply = ""
    /\ asked = <<>>
    /\ kb0 = EmptyDict
    /\ raw = ""
    /\ verdict = Idle
    /\ stored = Idle

Returned(fn, out) ==
    /\ result' = [fn |-> fn, out |-> out]
    /\ UNCHANGED <<state, user_data, keyboards, reply, asked, kb0, raw, verdict, stored>>

FederalStep ==
    /\ result = Idle
    /\ Has(user_data, "extracted_data")
    /\ \E ties \in TiesAt({"tax_owed"}) :
          Returned("calculate_federal_tax", calculate_federal_tax(user_data, ties))

StateStep ==
    /\ result = Idle
    /\ Has(user_data, "extracted_data")
    /\ \E ties \in TiesAt({"state_tax_owed"}) :
          Returned("calculate_state_tax", calculate_state_tax(user_data, "CA", ties))

SelfEmploymentStep ==
    /\ result = Idle
    /\ Has(user_data, "extracted_data")
    /\ \E ties \in TiesAt(RoundingSites \ {"tax_owed", "state_tax_owed"}) :
          Returned("calculate_self_employment_tax",
                   calculate_self_employment_tax(user_data, ties))

ProgressiveStep ==
    /\ result = Idle
    /\ Has(user_data, "taxable_income")
    /\ \E ties \in TiesAt({"tax_owed"}) :
          Returned("_calculate_progressive_tax",
                   _calculate_progressive_tax(user_data.taxable_income,
                                              user_data.filing_status, ties))

NextCalc == FederalStep \/ StateStep \/ SelfEmploymentStep \/ ProgressiveStep

SpecCalc == InitCalc /\ [][NextCalc]_vars

-----------------------------------------------------------------------------
(* Claims about the tax engine, checked under SpecCalc.                    *)

ReturnedBy(fn) == result # Idle /\ result.fn = fn

\* the wages and the withholding of the w2 record of the calculation input
W2Wages == IF Has(user_data.extracted_data, "w2")
           THEN DataCents(user_data.extracted_data["w2"].data, "wages_tips_other_comp") ELSE 0

W2Withheld ==
    IF Has(user_data.extracted_data, "w2")
    THEN DataCents(user_data.extracted_data["w2"].data, "federal_income_tax_withheld") ELSE 0

\* C17: for every filing status the questionnaire accepts, taxable_income is
\* max(0, wages - that status's deduction of the deduction table): never negative,
\* and below the wages when the wages exceed the deduction.
C17_TaxableIncomeUsesStatusDeduction ==
    (/\ ReturnedBy("calculate_federal_tax")
     /\ Has(user_data.user_answers, "filing_status")
     /\ user_data.user_answers.filing_status.s \in valid_options) =>
        LET deduction == InCents(FEDERAL_STANDARD_DEDUCTION[user_data.user_answers.filing_status.s])
            taxable_income == result.out.taxable_income
        IN  /\ taxable_income = IF W2Wages > deduction THEN W2Wages - deduction ELSE 0
            /\ taxable_income >= 0
            /\ W2Wages > deduction => taxable_income < W2Wages

\* the sum over the brackets with taxable_income > lower of
\* rate * (min(taxable_income, upper) - lower)
RECURSIVE BracketSum(_, _, _)
BracketSum(taxable_income, brackets, i) ==
    IF i = 0 THEN Fixed(0, 0)
    ELSE LET lower == InCents(brackets[i][1])
             upper == InCents(brackets[i][2])
             top == IF taxable_income < upper THEN taxable_income ELSE upper
         IN  IF taxable_income > lower
             THEN AddFixed(BracketSum(taxable_income, brackets, i - 1),
                           MulRate(top - lower, brackets[i][3]))
             ELSE BracketSum(taxable_income, brackets, i - 1)

HasBrackets == user_data.filing_status \in DOMAIN federal_brackets

SumForInput ==
    BracketSum(user_data.taxable_income, federal_brackets[user_data.filing_status],
               Len(federal_brackets[user_data.filing_status]))

\* C18 as stated: _calculate_progressive_tax equals the sum over the filing status's
\* brackets of rate * (min(taxable_income, upper) - lower) for the brackets with
\* taxable_income > lower; 6307.50 for single at 50000; 0 at income 0; non-decreasing.
C18_ProgressiveTaxIsBracketSum ==
    (ReturnedBy("_calculate_progressive_tax") /\ HasBrackets) =>
        /\ SumForInput.r = 0
        /\ result.out = SumForInput.w

\* C18 amended: _calculate_progressive_tax is that sum rounded to a nearest cent;
\* 6307.50 for single at 50000; 0 at income 0; non-decreasing in the income.
C18_ProgressiveTaxIsRoundedBracketSum ==
    (ReturnedBy("_calculate_progressive_tax") /\ HasBrackets) =>
        /\ result.out \in {Round2(SumForInput, FALSE), Round2(SumForInput, TRUE)}
        /\ (user_data.filing_status = "single" /\ user_data.taxable_income = 5000000)
              => result.out = 630750
        /\ user_data.taxable_income = 0 => result.out = 0
        /\ \A lesser \in TaxableIncomes, ties \in TiesAt({"tax_owed"}) :
              lesser < user_data.taxable_income =>
                 _calculate_progressive_tax(lesser, user_data.filing_status, ties) <= result.out

C18_Witness ==
    /\ ReturnedBy("_calculate_progressive_tax")
    /\ user_data = [taxable_income |-> 4615055, filing_status |-> "single"]
    /\ result.out = 546062

\* C19 as stated: refund and amount_due are non-negative and exactly one of them is
\* nonzero: refund = withheld - tax_owed when withheld > tax_owed, otherwise
\* amount_due = tax_owed - withheld; wages 60000, withheld 9000, single give
\* taxable_income 46150, tax_owed 5460.50, refund 3539.50, amount_due 0.
C19_ExactlyOneNonzero ==
    ReturnedBy("calculate_federal_tax") =>
        /\ result.out.refund >= 0 /\ result.out.amount_due >= 0
        /\ (result.out.refund # 0) # (result.out.amount_due # 0)

\* C19 amended: refund and amount_due are non-negative and at most one of them is
\* nonzero (both are zero when withheld equals tax_owed): refund = withheld - tax_owed
\* when withheld > tax_owed, otherwise amount_due = tax_owed - withheld; wages 60000,
\* withheld 9000, single give taxable_income 46150, tax_owed 5460.50, refund 3539.50.
C19_RefundOrAmountDue ==
    ReturnedBy("calculate_federal_tax") =>
        LET out == result.out
        IN  /\ out.refund >= 0 /\ out.amount_due >= 0
            /\ ~(out.refund # 0 /\ out.amount_due # 0)
            /\ out.withheld = W2Withheld
            /\ out.withheld > out.tax_owed =>
                  out.refund = out.withheld - out.tax_owed /\ out.amount_due = 0
            /\ out.withheld <= out.tax_owed =>
                  out.amount_due = out.tax_owed - out.withheld /\ out.refund = 0
            /\ (/\ W2Wages = 6000000 /\ W2Withheld = 900000
                /\ FilingStatusOf(user_data.user_answers) = "single") =>
                  out = [taxable_income |-> 4615000, tax_owed |-> 546050, withheld |-> 900000,
                         refund |-> 353950, amount_due |-> 0]

C19_Witness ==
    /\ ReturnedBy("calculate_federal_tax")
    /\ W2Wages = 6000000 /\ W2Withheld = 900000
    /\ user_data.user_answers = [filing_status |-> Str("single")]
    /\ result.out.refund = 353950

\* the 1099 income of the calculation input: the nonemployee_compensation of its
\* 1099-typed records
Income1099 ==
    LET ed == user_data.extracted_data
    IN  (IF Has(ed, "1099-nec") THEN DataCents(ed["1099-nec"].data, "nonemployee_compensation")
         ELSE 0)
        + (IF Has(ed, "1099-misc")
           THEN DataCents(ed["1099-misc"].data, "nonemployee_compensation") ELSE 0)

No1099Compensation ==
    \A t \in DOMAIN user_data.extracted_data :
        StartsWith(t, "1099") => ~Has(user_data.extracted_data[t].data, "nonemployee_compensation")

Nearest(x) == {Round2(x, FALSE), Round2(x, TRUE)}

\* 12.4% of the lesser of 92.35% of the income and the wage-base ceiling
SocialSecurityPortion(income) ==
    IF MulRate(income, 923500).w >= SS_WAGE_BASE THEN MulRate(SS_WAGE_BASE, 124000)
    ELSE MulRate(income, 114514)

MedicarePortion(income) == MulRate(income, 29000)

SurtaxPortion(income) ==
    IF income > ADDITIONAL_MEDICARE_THRESHOLD
    THEN MulRate(income - ADDITIONAL_MEDICARE_THRESHOLD, 9000) ELSE Fixed(0, 0)

SelfEmploymentParts(out) ==
    /\ No1099Compensation =>
          /\ out.total_income = 0 /\ out.social_security_tax = 0
          /\ out.medicare_tax = 0 /\ out.total_tax = 0
    /\ Income1099 > 0 =>
          /\ out.total_income = Income1099
          /\ out.social_security_tax \in Nearest(SocialSecurityPortion(Income1099))
          /\ out.medicare_tax \in Nearest(MedicarePortion(Income1099))
          /\ out.additional_medicare_tax \in Nearest(SurtaxPortion(Income1099))
          /\ out.additional_medicare_tax # 0 => Income1099 > ADDITIONAL_MEDICARE_THRESHOLD

\* C20 as stated: the bundle is all zero when no 1099 record carries
\* nonemployee_compensation; otherwise the social-security portion is 12.4% of 92.35%
\* of the income capped at the wage base, the surtax is nonzero only above the
\* threshold, and total_tax is the sum of the three portions of the bundle.
C20_TotalIsSumOfPortions ==
    ReturnedBy("calculate_self_employment_tax") =>
        /\ SelfEmploymentParts(result.out)
        /\ Income1099 > 0 =>
              result.out.total_tax = result.out.social_security_tax + result.out.medicare_tax
                                        + result.out.additional_medicare_tax

\* C20 amended: as stated, except that total_tax is the sum of the three portions
\* taken before they are rounded, rounded to a nearest cent.
C20_TotalIsRoundedSum ==
    ReturnedBy("calculate_self_employment_tax") =>
        /\ SelfEmploymentParts(result.out)
        /\ Income1099 > 0 =>
              result.out.total_tax \in
                 Nearest(AddFixed(AddFixed(SocialSecurityPortion(Income1099),
                                           MedicarePortion(Income1099)),
                                  SurtaxPortion(Income1099)))

C20_Witness ==
    /\ ReturnedBy("calculate_self_employment_tax")
    /\ Income1099 = 25000000
    /\ result.out = [total_income |-> 25000000, social_security_tax |-> 1986480,
                     medicare_tax |-> 725000, additional_medicare_tax |-> 45000,
                     total_tax |-> 2756480]

-----------------------------------------------------------------------------
(* screen_benefits driven on sampled arguments: user_data holds the        *)
(* arguments (answers is the user_data argument), result the list returned.*)

DependentSamples == {-1, 0, 1, 2, 3, 7, 9}

ZipSamples == {Absent, Str(""), Str("90001"), Str("80001"), Str("70001"), Str("60001"),
               Str("10001")}

DetailSamples ==
    {Absent, PyList(<<>>), PyList(<<[age |-> PyInt(3)]>>),
     PyList(<<[age |-> PyInt(7)], EmptyDict>>), PyList(<<[age |-> PyInt(6)]>>)}

\* adjusted gross incomes in whole dollars, the limits of the rules among them
AgiSamples ==
    {0, 8000, 9000, 12000, 12001, 17050, 17051, 18312, 18313, 20700, 20701, 24000, 24001,
     31224, 31225, 36000, 36001, 62099, 62100, 100000}

SampleTaxData ==
    {[federal |-> EmptyDict, state |-> EmptyDict], [summary |-> EmptyDict]}
        \cup {[summary |-> [agi |-> PyInt(agi)]] : agi \in AgiSamples}

SampleBenefitAnswers ==
    {DictOf([dependents |-> d, zip_code |-> z, dependents_details |-> dd]) :
        d \in {Absent} \cup {PyInt(n) : n \in DependentSamples},
        z \in ZipSamples, dd \in DetailSamples}

InitBen ==
    /\ \E answers \in SampleBenefitAnswers, tax_data \in SampleTaxData :
          user_data = [answers |-> answers, tax_data |-> tax_data]
    /\ result = Idle
    /\ state = "driver"
    /\ keyboards = {}
    /\ reply = ""
    /\ asked = <<>>
    /\ kb0 = EmptyDict
    /\ raw = ""
    /\ verdict = Idle
    /\ stored = Idle

ScreenStep ==
    /\ result = Idle
    /\ Returned("screen_benefits", screen_benefits(user_data.answers, user_data.tax_data))

NextBen == ScreenStep

SpecBen == InitBen /\ [][NextBen]_vars

-----------------------------------------------------------------------------
(* Claims about the benefits engine, checked under SpecBen.                *)

\* the programs in the order their rules are declared
Programs ==
    <<"Earned Income Tax Credit (EITC)", "Child Tax Credit",
      "California Earned Income Tax Credit (CalEITC)", "Young Child Tax Credit (California)",
      "SNAP (Food Stamps)", "WIC (Women, Infants, and Children)",
      "Medi-Cal (California Medicaid)", "LIHEAP (Home Energy Assistance)">>

ProgramIndex(program) == CHOOSE n \in 1..Len(Programs) : Programs[n] = program

ScreenedDependents == Get(user_data.answers, "dependents", PyInt(0)).n

ScreenedZip == Get(user_data.answers, "zip_code", Str("")).s

ScreenedInCalifornia == _get_state_from_zip(ScreenedZip) = "CA"

ScreenedIncome == BenefitsIncome(user_data.tax_data)

\* the predicate of the n-th rule on the arguments screen_benefits was called with
RuleHolds(n) ==
    CASE n = 1 -> _check_eitc_eligibility(ScreenedIncome, ScreenedDependents, "single")
      [] n = 2 -> ScreenedDependents > 0
      [] n = 3 -> /\ ScreenedInCalifornia
                  /\ _check_eitc_eligibility(ScreenedIncome, ScreenedDependents, "single")
      [] n = 4 -> /\ ScreenedInCalifornia
                  /\ ScreenedDependents > 0
                  /\ YoungChildren(Get(user_data.answers, "dependents_details",
                                       PyList(<<>>)).items) > 0
      [] n = 5 -> _check_snap_eligibility(ScreenedIncome, ScreenedDependents, ScreenedZip)
      [] n = 6 -> ScreenedDependents > 0
      [] n = 7 -> /\ ScreenedInCalifornia
                  /\ _check_medi_cal_eligibility(ScreenedIncome, ScreenedDependents)
      [] n = 8 -> _check_liheap_eligibility(ScreenedIncome, ScreenedDependents, ScreenedZip)

\* C21: screen_benefits evaluates its rules in the order EITC, Child Tax Credit,
\* CalEITC, Young Child Tax Credit, SNAP, WIC, Medi-Cal, LIHEAP: every match has
\* likely = true, the list returned follows the declaration order with no program
\* twice, and the match of a rule is in the list exactly when the rule's own predicate
\* holds of the arguments, whatever the other rules appended.
C21_MatchesInDeclarationOrder ==
    ReturnedBy("screen_benefits") =>
       /\ \A i \in 1..Len(result.out) :
             /\ result.out[i].likely = TRUE
             /\ result.out[i].program \in {Programs[n] : n \in 1..Len(Programs)}
       /\ \A i, j \in 1..Len(result.out) :
             i < j => ProgramIndex(result.out[i].program) < ProgramIndex(result.out[j].program)
       /\ \A n \in 1..Len(Programs) :
             RuleHolds(n) <=> \E i \in 1..Len(result.out) : result.out[i].program = Programs[n]

C21_Witness ==
    /\ ReturnedBy("screen_benefits")
    /\ [i \in 1..Len(result.out) |-> result.out[i].program] =
          <<"Child Tax Credit", "WIC (Women, Infants, and Children)",
            "LIHEAP (Home Energy Assistance)">>

-----------------------------------------------------------------------------
(* bot.py: TaxHelpBot and the ConversationHandler of main().               *)

MAX_FILE_SIZE == 10485760

allowed_types == {"application/pdf", "image/jpeg", "image/png"}

\* documents a user sends: mime type, size in bytes, and the text on the page
SampleUploads ==
    {[mime_type |-> "image/png", file_size |-> 204800,
      file_bytes |-> "W-2 Wage and Tax Statement 60,000.00 9000.00"],
     [mime_type |-> "image/jpeg", file_size |-> MAX_FILE_SIZE,
      file_bytes |-> "1099-NEC Nonemployee compensation $5,000.00"],
     [mime_type |-> "application/pdf", file_size |-> 204800,
      file_bytes |-> "W-2 Wage and Tax Statement 60,000.00 9000.00"],
     [mime_type |-> "image/png", file_size |-> MAX_FILE_SIZE + 1,
      file_bytes |-> "W-2 Wage and Tax Statement 60,000.00 9000.00"],
     [mime_type |-> "text/plain", file_size |-> 204800,
      file_bytes |-> "1099-NEC Nonemployee compensation $5,000.00"]}

LanguageButtons == {"lang_en", "lang_es", "lang_ru", "lang_ar"}

ReviewButtons == {"view_forms", "export_data", "review_info"}

\* data.split('_', 2): the text up to the first '_', up to the second, and the rest
\* (fewer parts when data has fewer than two underscores)
Split2(data) ==
    LET i == IndexOf(data, "_")
        rest1 == SubSeq(data, i + 1, Len(data))
        j == IndexOf(rest1, "_")
    IN  IF i = 0 THEN <<data>>
        ELSE IF j = 0 THEN <<SubSeq(data, 1, i - 1), rest1>>
        ELSE <<SubSeq(data, 1, i - 1), SubSeq(rest1, 1, j - 1), SubSeq(rest1, j + 1, Len(rest1))>>

\* the buttons ask_next_question renders for a choice question
QuestionButtons(question) ==
    {"answer_" \o question.key \o "_" \o question.options[i] : i \in 1..Len(question.options)}

\* what a handler leaves behind: the state it returns (the state it was entered in when
\* it raises), user_data, the buttons in the chat and its last message; a handler
\* that reaches the tax engine has one outcome for each outcome of its roundings
Outcome(st, ud, kbd, msg) == [state |-> st, user_data |-> ud, keyboards |-> kbd, reply |-> msg]

\* the tax_results calculate_taxes can store, one for each outcome of the roundings
\* of the engine
TaxResults(ud) ==
    LET tax_input == [extracted_data |-> Get(ud, "extracted_data", EmptyDict),
                      user_answers |-> Get(ud, "answers", EmptyDict)]
        federal_tax == {calculate_federal_tax(tax_input, ties) : ties \in TiesAt({"tax_owed"})}
        state_tax == {calculate_state_tax(tax_input, "CA", ties) :
                         ties \in TiesAt({"state_tax_owed"})}
        se_tax == IF HasGigDocument(Get(ud, "doc_types", <<>>))
                  THEN {calculate_self_employment_tax(tax_input, ties) :
                           ties \in TiesAt(RoundingSites \ {"tax_owed", "state_tax_owed"})}
                  ELSE {EmptyDict}
    IN  {[federal |-> f, state |-> st, self_employment |-> se,
          benefits |-> screen_benefits(Get(ud, "answers", EmptyDict),
                                       [federal |-> f, state |-> st])] :
            f \in federal_tax, st \in state_tax, se \in se_tax}

\* calculate_taxes: tax_results is stored before the summary is sent with
\* update.message.reply_text, which raises for a callback-query update (it has no
\* message)
calculate_taxes(ud, kbd, entered, by_callback) ==
    {LET ud1 == Put(ud, "tax_results", tax_results)
     IN  IF by_callback
         THEN Outcome(entered, ud1, kbd, "All questions answered! Calculating your taxes...")
         ELSE Outcome("REVIEW_EXPORT", ud1, kbd \cup ReviewButtons, "Choose an option:") :
        tax_results \in TaxResults(ud)}

\* ask_next_question going on to the calculation while the state question is still due
ask_next_question_CalculatesEarly(ud, kbd, entered, by_callback, last_msg) ==
    LET language == Get(ud, "language", "en")
        doc_types == Get(ud, "doc_types", <<>>)
        answers == Get(ud, "answers", EmptyDict)
        question == get_next_question(answers, doc_types, language)
    IN  IF Raised(question) THEN {Outcome(entered, ud, kbd, last_msg)}
        ELSE IF question # None /\ question.type # "yes_no"
        THEN {Outcome("ADAPTIVE_QA", Put(ud, "current_question", question),
                      IF question.type = "choice" THEN kbd \cup QuestionButtons(question)
                      ELSE kbd,
                      question.question)}
        ELSE calculate_taxes(ud, kbd, entered, by_callback)

ask_next_question(ud, kbd, entered, by_callback, last_msg) ==
    LET language == Get(ud, "language", "en")
        doc_types == Get(ud, "doc_types", <<>>)
        answers == Get(ud, "answers", EmptyDict)
        question == get_next_question(answers, doc_types, language)
    IN  IF Raised(question) THEN {Outcome(entered, ud, kbd, last_msg)}
        ELSE IF question # None
        THEN {Outcome("ADAPTIVE_QA", Put(ud, "current_question", question),
                      IF question.type = "choice" THEN kbd \cup QuestionButtons(question)
                      ELSE kbd,
                      question.question)}
        ELSE calculate_taxes(ud, kbd, entered, by_callback)

\* raw text a user types in reply to the question asked for `key`
TypedAnswers(key) ==
    CASE key = "filing_status" -> {"single", "Soltero"}
      [] key = "dependents"    -> {"2", "nan"}
      [] key = "zip_code"      -> {"90001", "10001", "9000"}
      [] key = "gig_method"    -> {"Standard Mileage Rate", "Actual Expenses", "Gastos Reales"}
      [] key = "phone_percent" -> {"42", "150"}
      [] key = "state_specific" -> {"no"}
      [] OTHER                 -> {"120.5", "x"}

\* the buttons a user presses, among those rendered in the chat
SamplePresses ==
    LanguageButtons \cup ReviewButtons \cup
    {"answer_filing_status_Single", "answer_filing_status_Head of Household",
     "answer_filing_status_Soltero", "answer_gig_method_Actual Expenses",
     "answer_gig_method_Gastos Reales"}

Apply(o) ==
    /\ state' = o.state
    /\ user_data' = o.user_data
    /\ keyboards' = o.keyboards
    /\ reply' = o.reply
    /\ UNCHANGED <<result, asked, kb0, raw, verdict, stored>>

\* END stands for no conversation being active
ConversationStates ==
    {"END", "LANGUAGE_SELECTION", "DOCUMENT_UPLOAD", "ADAPTIVE_QA", "REVIEW_EXPORT"}

Init ==
    /\ state = "END"
    /\ user_data = EmptyDict
    /\ keyboards = {}
    /\ reply = ""
    /\ result = Idle
    /\ asked = <<>>
    /\ kb0 = EmptyDict
    /\ raw = ""
    /\ verdict = Idle
    /\ stored = Idle

\* /start: entry point and fallback of every state
start ==
    /\ state \in ConversationStates
    /\ Apply(Outcome("LANGUAGE_SELECTION",
                  [user_id |-> 1, documents |-> <<>>, extracted_data |-> EmptyDict,
                   answers |-> EmptyDict],
                  keyboards \cup LanguageButtons,
                     "Let's start with your preferred language:"))

\* a language button pressed in LANGUAGE_SELECTION
language_selected ==
    /\ state = "LANGUAGE_SELECTION"
    /\ \E data \in keyboards \cap SamplePresses :
          /\ StartsWith(data, "lang_")
          /\ Apply(Outcome("DOCUMENT_UPLOAD", Put(user_data, "language", Split2(data)[2]),
                           keyboards, "Language set"))

\* handle_document without the check of the file size
HandleDocument_NoSizeCheck(document) ==
    IF document.mime_type \notin allowed_types
    THEN Outcome("DOCUMENT_UPLOAD", user_data, keyboards,
                 "Please send PDF, JPG, or PNG files only.")
    ELSE Outcome("DOCUMENT_UPLOAD",
                 Put(user_data, "documents", Append(user_data.documents, document)),
                 keyboards, "uploaded successfully!")

\* handle_document on an update that carries `document`
HandleDocument(document) ==
    IF document.file_size > MAX_FILE_SIZE
    THEN Outcome("DOCUMENT_UPLOAD", user_data, keyboards,
                 "File too large. Please send files smaller than 10MB.")
    ELSE IF document.mime_type \notin allowed_types
    THEN Outcome("DOCUMENT_UPLOAD", user_data, keyboards,
                 "Please send PDF, JPG, or PNG files only.")
    ELSE Outcome("DOCUMENT_UPLOAD",
                 Put(user_data, "documents", Append(user_data.documents, document)),
                 keyboards, "uploaded successfully!")

\* a document sent in DOCUMENT_UPLOAD
handle_document ==
    /\ state = "DOCUMENT_UPLOAD"
    /\ Len(user_data.documents) < MaxDocs
    /\ \E document \in SampleUploads : Apply(HandleDocument(document))

\* the text recognised on a document
RecognisedText(doc) ==
    IF doc.mime_type = "application/pdf" THEN extract_text_from_pdf(doc.file_bytes)
    ELSE extract_text(doc.file_bytes)

\* the body of the loop of process_documents on one document: its type and the
\* record kept for it
ClassifiedDocument(text, doc_type) ==
    [doc_type |-> doc_type, record |-> ExtractionRecord(extract_data(text, doc_type), doc_type)]

ProcessDocument(doc) ==
    ClassifiedDocument(RecognisedText(doc), classify_document(RecognisedText(doc)))

\* ProcessDocument on each of the sampled uploads
Processed == [doc \in SampleUploads |-> ProcessDocument(doc)]

\* the loop of process_documents over the documents: <<extracted_data, doc_types>>;
\* `done` is the document of this turn of the loop, processed
RECURSIVE ProcessLoop(_, _, _)
RECURSIVE ProcessRest(_, _, _, _)
ProcessRest(documents, extracted_data, doc_types, done) ==
    ProcessLoop(documents, Put(extracted_data, done.doc_type, done.record),
                Append(doc_types, done.doc_type))

ProcessLoop(documents, extracted_data, doc_types) ==
    IF documents = <<>> THEN <<extracted_data, doc_types>>
    ELSE ProcessRest(Tail(documents), extracted_data, doc_types, Processed[Head(documents)])

\* what process_documents leaves behind when there are documents to process
\* user_data with the results of the loop stored
WithProcessed(ud, done) == Put(Put(ud, "extracted_data", done[1]), "doc_types", done[2])

ProcessOutcomes ==
    ask_next_question(WithProcessed(user_data,
                                    ProcessLoop(user_data.documents, EmptyDict, <<>>)),
                      keyboards, "DOCUMENT_UPLOAD", FALSE, "Now I'll ask you a few questions")

\* /process in DOCUMENT_UPLOAD
process_documents ==
    /\ state = "DOCUMENT_UPLOAD"
    /\ IF Get(user_data, "documents", <<>>) = <<>>
       THEN Apply(Outcome("DOCUMENT_UPLOAD", user_data, keyboards,
                          "Please upload at least one document first."))
       ELSE \E o \in ProcessOutcomes : Apply(o)

\* HandleAnswer with the answer stored before it is validated
HandleAnswer_StoreFirst(question_key, answer, by_callback) ==
    LET v == validate_answer(question_key, answer)
        p == process_answer(question_key, answer, Get(user_data, "answers", EmptyDict))
        ud1 == IF Raised(p) THEN user_data ELSE Put(user_data, "answers", p)
    IN  IF ~v.ok
        THEN {Outcome("ADAPTIVE_QA", ud1, keyboards, "Invalid answer: " \o v.msg)}
        ELSE IF Raised(p)
        THEN {Outcome("ADAPTIVE_QA", user_data, keyboards, reply)}
        ELSE ask_next_question(ud1, keyboards, "ADAPTIVE_QA", by_callback, reply)

\* the part of handle_answer after question_key and answer are known
HandleAnswer(question_key, answer, by_callback) ==
    LET v == validate_answer(question_key, answer)
        p == process_answer(question_key, answer, Get(user_data, "answers", EmptyDict))
    IN  IF ~v.ok
        THEN IF by_callback
             THEN {Outcome("ADAPTIVE_QA", user_data, keyboards, reply)}
             ELSE {Outcome("ADAPTIVE_QA", user_data, keyboards, "Invalid answer: " \o v.msg)}
        ELSE IF Raised(p)
        THEN {Outcome("ADAPTIVE_QA", user_data, keyboards, reply)}
        ELSE ask_next_question(Put(user_data, "answers", p), keyboards, "ADAPTIVE_QA",
                               by_callback, reply)

\* a text message in ADAPTIVE_QA
handle_answer_text ==
    /\ state = "ADAPTIVE_QA"
    /\ LET question_key == Get(Get(user_data, "current_question", EmptyDict), "key", "")
       IN  IF question_key = ""
           THEN Apply(Outcome("ADAPTIVE_QA", user_data, keyboards,
                              "Please answer the current question."))
           ELSE \E answer \in TypedAnswers(question_key) :
                   \E o \in HandleAnswer(question_key, answer, FALSE) : Apply(o)

\* an answer_ button pressed in ADAPTIVE_QA
handle_answer_callback ==
    /\ state = "ADAPTIVE_QA"
    /\ \E data \in keyboards \cap SamplePresses :
          /\ StartsWith(data, "answer_")
          /\ LET parts == Split2(data)
             IN  IF Len(parts) < 3 \/ parts[2] = ""
                 THEN Apply(Outcome("ADAPTIVE_QA", user_data, keyboards, reply))
                 ELSE \E o \in HandleAnswer(parts[2], parts[3], TRUE) : Apply(o)

\* any button pressed in REVIEW_EXPORT
handle_review_choice ==
    /\ state = "REVIEW_EXPORT"
    /\ \E choice \in keyboards \cap SamplePresses :
          Apply(Outcome("REVIEW_EXPORT", user_data, keyboards,
                        CASE choice = "view_forms" -> "Your Tax Return Summary"
                          [] choice = "export_data" -> "Your Tax Data Export"
                          [] choice = "review_info" -> "Review Your Information:"
                          [] OTHER -> reply))

\* /cancel: fallback of every state
cancel ==
    /\ state # "END"
    /\ Apply(Outcome("END", user_data, keyboards,
                     "Operation cancelled. Type /start to begin again."))

Next ==
    \/ start
    \/ language_selected
    \/ handle_document
    \/ process_documents
    \/ handle_answer_text
    \/ handle_answer_callback
    \/ handle_review_choice
    \/ cancel

Spec == Init /\ [][Next]_vars

-----------------------------------------------------------------------------
(* Claims about the conversation, checked under Spec.                      *)

CurrentKey == Get(Get(user_data, "current_question", EmptyDict), "key", "")

\* the step is handle_answer handling the typed `answer`
HandlesTyped(answer) ==
    /\ state = "ADAPTIVE_QA"
    /\ CurrentKey # ""
    /\ Outcome(state', user_data', keyboards', reply') \in HandleAnswer(CurrentKey, answer, FALSE)

\* C6: when validate_answer rejects the answer in handle_answer, the answers are
\* left as they were, the conversation stays in ADAPTIVE_QA and the current
\* question is unchanged.
C6_RejectedAnswerChangesNothing ==
    [][\A answer \in TypedAnswers(CurrentKey) :
          (~validate_answer(CurrentKey, answer).ok /\ HandlesTyped(answer)) =>
             /\ user_data'.answers = user_data.answers
             /\ state' = "ADAPTIVE_QA"
             /\ user_data'.current_question = user_data.current_question]_vars

C6_Witness ==
    /\ state = "ADAPTIVE_QA"
    /\ CurrentKey = "zip_code"
    /\ reply = "Invalid answer: Please enter a valid ZIP code"
    /\ DOMAIN user_data.answers = {"filing_status", "dependents"}

\* C7: during the questionnaire phase the answers only grow: a step of
\* handle_answer removes no key and leaves the value of every present key as it was.
C7_AnswersOnlyGrow ==
    [][(state = "ADAPTIVE_QA" /\ state' \in {"ADAPTIVE_QA", "REVIEW_EXPORT"}) =>
          \A k \in DOMAIN user_data.answers :
             /\ k \in DOMAIN user_data'.answers
             /\ user_data'.answers[k] = user_data.answers[k]]_vars

\* the step is process_documents processing the uploaded documents
ProcessesDocuments ==
    /\ state = "DOCUMENT_UPLOAD"
    /\ Get(user_data, "documents", <<>>) # <<>>
    /\ Outcome(state', user_data', keyboards', reply') \in ProcessOutcomes

\* no marker phrase of any type is found on any of the uploaded documents
NothingRecognised ==
    \A i \in 1..Len(user_data.documents) :
       \A t \in DOMAIN keywords : Score(t, Lower(RecognisedText(user_data.documents[i]))) = 0

\* C12: recognition failure is not fatal: a text with no marker phrase (the empty
\* text among them) is classified 'other' with confidence 0 and extracts to the empty
\* mapping, and process_documents on such documents does not raise and does not end
\* the session: the conversation continues to the questionnaire.
C12_RecognitionFailureNotFatal ==
    [][(ProcessesDocuments /\ NothingRecognised) =>
          /\ \A i \in 1..Len(user_data.documents) :
                LET text == RecognisedText(user_data.documents[i])
                IN  /\ classify_document(text) = "other"
                    /\ get_confidence_score(text, "other") = Ratio(0, 1)
                    /\ extract_data(text, "other") = EmptyDict
          /\ state' = "ADAPTIVE_QA"
          /\ Has(user_data', "current_question")]_vars

\* the sum of a field over the uploaded documents of a type
RECURSIVE UploadedSum(_, _, _)
UploadedSum(documents, doc_type, field) ==
    IF documents = <<>> THEN 0
    ELSE (IF Processed[Head(documents)].doc_type = doc_type
          THEN DataCents(Processed[Head(documents)].record.data, field) ELSE 0)
         + UploadedSum(Tail(documents), doc_type, field)

\* C16: after process_documents the session holds one record per processed document,
\* two documents of the same type included, and the federal calculation sums the
\* withholding over all the w2 documents.
C16_OneRecordPerDocument ==
    Has(user_data, "doc_types") =>
       /\ Cardinality(DOMAIN user_data.extracted_data) = Len(user_data.doc_types)
       /\ Has(user_data, "tax_results") =>
             user_data.tax_results.federal.withheld =
                UploadedSum(user_data.documents, "w2", "federal_income_tax_withheld")

\* the documents processed in the session yield no income: no w2 wages and no 1099
\* compensation
ZeroIncome ==
    /\ Has(user_data, "extracted_data")
    /\ SumOver(user_data.extracted_data, W2Types(user_data.extracted_data),
               "wages_tips_other_comp") = 0
    /\ SumOver(user_data.extracted_data, Types1099(user_data.extracted_data),
               "nonemployee_compensation") = 0

\* the part carries each of the fields, with value zero
CarriesZero(part, fields) == \A f \in fields : Has(part, f) /\ part[f] = 0

\* C22: when the processed documents yield zero income, calculate_taxes raises no
\* error (the conversation has moved on to REVIEW_EXPORT) and the result bundle it
\* stored is well formed: the federal, state and self_employment parts each carry
\* their fields with value zero.
C22_ZeroIncomeGivesZeroBundle ==
    (Has(user_data, "tax_results") /\ ZeroIncome) =>
       /\ state \in {"REVIEW_EXPORT", "END"}
       /\ CarriesZero(user_data.tax_results.federal,
                      {"taxable_income", "tax_owed", "withheld", "refund", "amount_due"})
       /\ CarriesZero(user_data.tax_results.state,
                      {"taxable_income", "tax_owed", "refund", "amount_due"})
       /\ CarriesZero(user_data.tax_results.self_employment,
                      {"total_income", "social_security_tax", "medicare_tax", "total_tax"})

\* the upload does not meet the constraints: it is larger than 10 MB or its mime type
\* is none of pdf, jpeg and png
Rejected(document) ==
    \/ document.file_size > 10 * 1024 * 1024
    \/ document.mime_type \notin {"application/pdf", "image/jpeg", "image/png"}

\* the step is handle_document on an upload of `document`
Uploads(document) ==
    /\ state = "DOCUMENT_UPLOAD"
    /\ Outcome(state', user_data', keyboards', reply') = HandleDocument(document)

\* C23: over any sequence of upload attempts every document stored in the session's
\* documents list is at most 10 MB large with a mime type among pdf, jpeg and png,
\* and a rejected upload leaves the documents list unchanged and the conversation in
\* DOCUMENT_UPLOAD.
C23_OnlyAllowedDocumentsStored ==
    /\ [](Has(user_data, "documents") =>
             \A i \in 1..Len(user_data.documents) : ~Rejected(user_data.documents[i]))
    /\ [][\A document \in SampleUploads :
             (Rejected(document) /\ Uploads(document)) =>
                /\ user_data'.documents = user_data.documents
                /\ state' = "DOCUMENT_UPLOAD"]_vars

\* a document is stored and an upload after it was rejected for its size
C23_Witness ==
    /\ state = "DOCUMENT_UPLOAD"
    /\ Len(Get(user_data, "documents", <<>>)) = 1
    /\ user_data.documents[1].file_size = MAX_FILE_SIZE
    /\ reply = "File too large. Please send files smaller than 10MB."

\* the step stores a tax_results: calculate_taxes was invoked in it
StoresTaxResults ==
    /\ Has(user_data', "tax_results")
    /\ ~Has(user_data, "tax_results") \/ user_data'.tax_results # user_data.tax_results

\* C24: calculate_taxes is invoked, and tax_results set, only when get_next_question
\* on the session's answers and document types returns the no-question sentinel and
\* only after process_documents has run; the conversation never goes back from
\* REVIEW_EXPORT to the questionnaire.
C24_CalculatesOnlyWhenNoQuestionPending ==
    [][/\ StoresTaxResults =>
             /\ Has(user_data', "doc_types")
             /\ get_next_question(user_data'.answers, user_data'.doc_types,
                                  Get(user_data', "language", "en")) = None
       /\ state = "REVIEW_EXPORT" => state' # "ADAPTIVE_QA"]_vars

\* results were computed after the state question, the last one, was answered
C24_Witness ==
    /\ state = "REVIEW_EXPORT"
    /\ Has(user_data, "tax_results")
    /\ Has(user_data.answers, "state_specific")
    /\ reply = "Your Tax Data Export"

\* the step is handle_answer on a press of the button with callback_data `data`
Presses(data) ==
    /\ state = "ADAPTIVE_QA"
    /\ data \in keyboards
    /\ Len(Split2(data)) = 3
    /\ Outcome(state', user_data', keyboards', reply')
          \in HandleAnswer(Split2(data)[2], Split2(data)[3], TRUE)

\* the choice question being asked, None when the current question is not a choice
ChoiceAsked ==
    IF state = "ADAPTIVE_QA" /\ Has(user_data, "current_question")
          /\ user_data.current_question.type = "choice"
    THEN user_data.current_question ELSE None

\* C26: when the user presses one of the option buttons rendered for the choice
\* question being asked (filing_status or gig_method), handle_answer stores the chosen
\* option under that question's own key and the question asked next has a different
\* key; no key outside the canonical keys of the questionnaire is ever added to the
\* answers.
C26_ButtonStoresUnderOwnKey ==
    /\ [](Has(user_data, "answers") => DOMAIN user_data.answers \subseteq CanonicalKeys)
    /\ [][ChoiceAsked # None =>
             \A i \in 1..Len(ChoiceAsked.options) :
                Presses("answer_" \o ChoiceAsked.key \o "_" \o ChoiceAsked.options[i]) =>
                   /\ Has(user_data'.answers, ChoiceAsked.key)
                   /\ user_data'.answers[ChoiceAsked.key] =
                         StoredValue(ChoiceAsked.key, ChoiceAsked.options[i])
                   /\ user_data'.current_question.key # ChoiceAsked.key]_vars

\* an amount in cents as dollars, a part of a dollar counted as one
DollarsUp(cents) == (cents + 99) \div 100

\* the income of `dollars` is over the income limit of the program for the dependents
OverLimit(program, dollars, dependents) ==
    CASE program = "Earned Income Tax Credit (EITC)" ->
            ~_check_eitc_eligibility(dollars, dependents, "single")
      [] program = "SNAP (Food Stamps)" -> ~_check_snap_eligibility(dollars, dependents, "")
      [] program = "Medi-Cal (California Medicaid)" ->
            ~_check_medi_cal_eligibility(dollars, dependents)
      [] program = "LIHEAP (Home Energy Assistance)" ->
            ~_check_liheap_eligibility(dollars, dependents, "")

IncomeTestedPrograms ==
    {"Earned Income Tax Credit (EITC)", "SNAP (Food Stamps)", "Medi-Cal (California Medicaid)",
     "LIHEAP (Home Energy Assistance)"}

MatchedPrograms ==
    {user_data.tax_results.benefits[i].program : i \in 1..Len(user_data.tax_results.benefits)}

\* C29: in the end-to-end calculation screen_benefits tests its rules against the
\* income derived from the extraction records (the total wages, or the taxable income
\* of the federal result): a user whose wages and taxable income are over the income
\* limit of EITC, SNAP, Medi-Cal or LIHEAP for their dependent count does not receive
\* the BenefitMatch of that program.
C29_BenefitsUseDerivedIncome ==
    Has(user_data, "tax_results") =>
       \A program \in IncomeTestedPrograms :
          (/\ OverLimit(program,
                        DollarsUp(SumOver(user_data.extracted_data,
                                          W2Types(user_data.extracted_data),
                                          "wages_tips_other_comp")),
                        Get(user_data.answers, "dependents", PyInt(0)).n)
           /\ OverLimit(program, DollarsUp(user_data.tax_results.federal.taxable_income),
                        Get(user_data.answers, "dependents", PyInt(0)).n))
             => program \notin MatchedPrograms

====
